---- MODULE Spec2Model ----
(***************************************************************************)
(* KLAP session layer of the p110 reader: Client.Connect (handshake 1,     *)
(* handshake 2, key derivation), P110.sendRequest / klapSession.request    *)
(* (seq increment, framing, POST, reply verification) and the callers that *)
(* use one P110 concurrently.                                              *)
(*                                                                         *)
(* Byte strings are sequences of 0..255.  SHA-256 and AES-128-CBC are      *)
(* modelled symbolically: a digest is the record of the segments that were *)
(* hashed, a ciphertext is the record of key, iv and padded plaintext it   *)
(* was made from.  The four last bytes of the "iv" digest, from which the  *)
(* code reads seq, are concrete bytes given by a fixed table.              *)
(***************************************************************************)
EXTENDS Integers, Sequences, FiniteSets, TLC

\* ------------------------------------------------------------------ bounds
NumCallers == 2
MaxCalls == 3

MaxClock == 3
\* poll cycles the daemon is followed through
MaxPolls == 2
\* longest byte string given to pkcs7Pad and pkcs7Unpad
MaxLen == 33

Sessions == {1, 2}
Callers == 1..NumCallers

\* ------------------------------------------------------- program constants
klapIVSize == 12
BlockSize == 16
StatusOK == 200

MaxInt32 == 2147483647
MinInt32 == (-2147483647) - 1

IntervalHourly == 60
IntervalDaily == 1440
IntervalMonthly == 43200

\* ------------------------------------------------------------- input sets
Hosts == {"192.0.2.10"}
LocalSeeds == {"L1", "L2"}
RemoteSeeds == {"Rmax", "Rneg", "Rpos"}
Username == "a@b"
Password == "pw"
Commands == {"GetDeviceInfo", "TurnOff"}
Responders == {"192.0.2.10", "192.0.2.11"}
Timeouts == {1, 2}
Intervals == {"hourly", "daily", "monthly", "weekly"}
Locations == {"UTC", "Asia/Kolkata", "Europe/Berlin", "America/New_York"}
Years == 2022..2027
Setups == {"ok", "failed to create UDP socket", "failed to send discovery broadcast"}

\* ----------------------------------------------------------- byte helpers
Repeat(b, n) == [i \in 1..n |-> b]

\* a counter that stops at the int32 limit instead of wrapping
Inc32_Saturating(x) == IF x = MaxInt32 THEN x ELSE x + 1

\* int32 increment of Go: s.seq++ wraps from MaxInt32 to MinInt32
Inc32(x) == IF x = MaxInt32 THEN MinInt32 ELSE x + 1

\* binary.BigEndian.PutUint32(b, uint32(seq)): two's complement, big endian
PutUint32(x) ==
  << (x \div 16777216) % 256, (x \div 65536) % 256, (x \div 256) % 256, x % 256 >>

\* int32(binary.BigEndian.Uint32(b))
Int32BE(b) ==
  (IF b[1] >= 128 THEN b[1] - 256 ELSE b[1]) * 16777216
    + b[2] * 65536 + b[3] * 256 + b[4]

\* fmt.Sprintf("%d", seq): the ASCII decimal text of a signed integer
RECURSIVE DecimalDigits(_)
DecimalDigits(x) ==
  IF x < 0
    THEN LET d == (10 - (x % 10)) % 10
         IN (IF x + d = 0 THEN <<>> ELSE DecimalDigits((x + d) \div 10)) \o <<48 + d>>
    ELSE (IF x < 10 THEN <<>> ELSE DecimalDigits(x \div 10)) \o <<48 + (x % 10)>>

FormatInt(x) == IF x < 0 THEN <<45>> \o DecimalDigits(x) ELSE DecimalDigits(x)

\* ------------------------------------------------------------ hashing
\* sha256Hash(parts...): the digest of the segments fed in order
sha256Hash(parts) == [alg |-> "sha256", parts |-> parts]

NoDigest == [alg |-> "none", parts |-> <<>>]

\* prefix of a digest: digest[:n]
Prefix(d, n) == [of |-> d, n |-> n]

NoPrefix == Prefix(NoDigest, 0)

\* bytes 28..32 of a digest; a fixed table over the remote seed hashed in
DigestTail(d) ==
  IF Len(d.parts) < 3 THEN <<0, 0, 0, 0>>
  ELSE CASE d.parts[3] = "Rmax" -> <<127, 255, 255, 254>>
         [] d.parts[3] = "Rneg" -> <<255, 255, 255, 254>>
         [] OTHER -> <<0, 0, 1, 255>>

\* generateAuthHash(username, password) = SHA256(SHA1(username) + SHA1(password))
generateAuthHash(username, password) ==
  sha256Hash(<< [alg |-> "sha1", parts |-> <<username>>],
                [alg |-> "sha1", parts |-> <<password>>] >>)

\* the device's own credentials hash when they differ from the client's
OtherAuthHash == generateAuthHash(Username, "other")

\* ------------------------------------------------------------ padding
\* padding that adds nothing to data already a whole number of blocks
pkcs7Pad_NoFullBlock(data, blockSize) ==
  LET padding == (blockSize - (Len(data) % blockSize)) % blockSize
  IN data \o Repeat(padding, padding)

\* pkcs7Pad: blockSize - len % blockSize bytes of that value are appended
pkcs7Pad(data, blockSize) ==
  LET padding == blockSize - (Len(data) % blockSize)
  IN data \o Repeat(padding, padding)

\* result of pkcs7Unpad: [ok |-> TRUE, data |-> ...] or [ok |-> FALSE, ...]
pkcs7Unpad(data) ==
  LET length == Len(data)
  IN IF length = 0 THEN [ok |-> FALSE, data |-> <<>>, err |-> "empty data"]
     ELSE LET padding == data[length]
          IN IF padding > length \/ padding = 0
               THEN [ok |-> FALSE, data |-> <<>>, err |-> "invalid padding"]
             ELSE IF \E i \in 0..(padding - 1) : data[length - i] # padding
               THEN [ok |-> FALSE, data |-> <<>>, err |-> "invalid padding"]
             ELSE [ok |-> TRUE, data |-> SubSeq(data, 1, length - padding),
                   err |-> ""]

\* ------------------------------------------------------------ AES-128-CBC
\* iv := ivSeq (12 bytes) + seq (4 bytes big-endian)
BuildIV(ivSeq, seq) == [seed |-> ivSeq, tail |-> PutUint32(seq)]

\* cipher.NewCBCEncrypter(block, iv).CryptBlocks: the ciphertext of padded
\* under (key, iv); flip marks a ciphertext altered after encryption
CBCEncrypt(key, iv, padded) == [k |-> key, iv |-> iv, pt |-> padded, flip |-> 0]

CtLen(ct) == Len(ct.pt)

\* cipher.NewCBCDecrypter(block, iv).CryptBlocks: the padded plaintext when key
\* and iv are those of the encryption, unrelated bytes otherwise
CBCDecrypt(key, iv, ct) ==
  IF ct.k = key /\ ct.iv = iv /\ ct.flip = 0 THEN ct.pt ELSE Repeat(0, CtLen(ct))

\* a signature over the key and the ciphertext alone
Signature_NoSeq(sig, seq, ct) ==
  [alg |-> "sha256", key |-> sig, seqBytes |-> PutUint32(0), ct |-> ct]

\* signature := SHA256(sig + seq_bytes + ciphertext)
Signature(sig, seq, ct) ==
  [alg |-> "sha256", key |-> sig, seqBytes |-> PutUint32(seq), ct |-> ct]

\* payload := signature (32 bytes) + ciphertext; a payload is given by its
\* length, its first 32 bytes and the rest
Frame(signature, ct) == [len |-> 32 + CtLen(ct), sig |-> signature, ct |-> ct]

NoCt == [k |-> NoPrefix, iv |-> BuildIV(NoPrefix, 0), pt |-> <<>>, flip |-> 0]

NoPayload == [len |-> 0, sig |-> Signature(NoPrefix, 0, NoCt), ct |-> NoCt]

\* ------------------------------------------------------------ klapSession
NoCookie == [id |-> 0]

NoSession ==
  [localSeed |-> "", remoteSeed |-> "", authHash |-> NoDigest,
   key |-> NoPrefix, ivSeq |-> NoPrefix, sig |-> NoPrefix, seq |-> 0,
   host |-> ""]

\* the server hash computed in the order of the client hash
calculateServerHash_Swapped(s) ==
  sha256Hash(<<s.remoteSeed, s.localSeed, s.authHash>>)

calculateServerHash(s) == sha256Hash(<<s.localSeed, s.remoteSeed, s.authHash>>)

calculateClientHash(s) == sha256Hash(<<s.remoteSeed, s.localSeed, s.authHash>>)

\* the "iv" digest of deriveKeys
IvData(localSeed, remoteSeed, authHash) ==
  sha256Hash(<<"iv", localSeed, remoteSeed, authHash>>)

\* keys derived from the host as well as the seeds and the auth hash
deriveKeys_SeededByHost(s) ==
  LET keyData == sha256Hash(<<"lsk", s.host, s.localSeed, s.remoteSeed, s.authHash>>)
      ivData == IvData(s.localSeed, s.remoteSeed, s.authHash)
      sigData == sha256Hash(<<"ldk", s.localSeed, s.remoteSeed, s.authHash>>)
  IN [s EXCEPT !.key = Prefix(keyData, 16),
               !.ivSeq = Prefix(ivData, klapIVSize),
               !.seq = Int32BE(DigestTail(ivData)),
               !.sig = Prefix(sigData, 28)]

deriveKeys(s) ==
  LET keyData == sha256Hash(<<"lsk", s.localSeed, s.remoteSeed, s.authHash>>)
      ivData == IvData(s.localSeed, s.remoteSeed, s.authHash)
      sigData == sha256Hash(<<"ldk", s.localSeed, s.remoteSeed, s.authHash>>)
  IN [s EXCEPT !.key = Prefix(keyData, 16),
               !.ivSeq = Prefix(ivData, klapIVSize),
               !.seq = Int32BE(DigestTail(ivData)),
               !.sig = Prefix(sigData, 28)]

\* encrypt with the IV assembled before the increment of seq
encrypt_StaleIV(s, plaintext) ==
  LET seq == Inc32(s.seq)
      iv == BuildIV(s.ivSeq, s.seq)
      padded == pkcs7Pad(plaintext, BlockSize)
      ciphertext == CBCEncrypt(s.key, iv, padded)
      signature == Signature(s.sig, seq, ciphertext)
  IN [newSeq |-> seq, seq |-> seq, payload |-> Frame(signature, ciphertext)]

\* encrypt: the new seq, the framed payload and the parts it was built from
encrypt(s, plaintext) ==
  LET seq == Inc32(s.seq)
      iv == BuildIV(s.ivSeq, seq)
      padded == pkcs7Pad(plaintext, BlockSize)
      ciphertext == CBCEncrypt(s.key, iv, padded)
      signature == Signature(s.sig, seq, ciphertext)
  IN [newSeq |-> seq, seq |-> seq, payload |-> Frame(signature, ciphertext)]

\* decrypt without the comparison of the signature
decrypt_NoVerify(s, payload, seq) ==
  IF payload.len < 32
    THEN [kind |-> "err", err |-> "payload too short", pt |-> <<>>,
          sigChecked |-> FALSE, aes |-> FALSE]
  ELSE IF CtLen(payload.ct) % BlockSize # 0
    THEN [kind |-> "panic", err |-> "crypto/cipher: input not full blocks",
          pt |-> <<>>, sigChecked |-> FALSE, aes |-> TRUE]
  ELSE LET plaintext == CBCDecrypt(s.key, BuildIV(s.ivSeq, seq), payload.ct)
           unpadded == pkcs7Unpad(plaintext)
       IN IF ~unpadded.ok
            THEN [kind |-> "err", err |-> "failed to unpad", pt |-> <<>>,
                  sigChecked |-> FALSE, aes |-> TRUE]
            ELSE [kind |-> "ok", err |-> "", pt |-> unpadded.data,
                  sigChecked |-> FALSE, aes |-> TRUE]

\* decrypt: kind "ok" with the plaintext, kind "err" with the message, or
\* kind "panic" when CryptBlocks is given input that is not full blocks;
\* sigChecked and aes tell whether the signature comparison and the AES
\* decryption were reached
decrypt(s, payload, seq) ==
  IF payload.len < 32
    THEN [kind |-> "err", err |-> "payload too short", pt |-> <<>>,
          sigChecked |-> FALSE, aes |-> FALSE]
  ELSE IF payload.sig # Signature(s.sig, seq, payload.ct)
    THEN [kind |-> "err", err |-> "signature verification failed", pt |-> <<>>,
          sigChecked |-> TRUE, aes |-> FALSE]
  ELSE IF CtLen(payload.ct) % BlockSize # 0
    THEN [kind |-> "panic", err |-> "crypto/cipher: input not full blocks",
          pt |-> <<>>, sigChecked |-> TRUE, aes |-> TRUE]
  ELSE LET plaintext == CBCDecrypt(s.key, BuildIV(s.ivSeq, seq), payload.ct)
           unpadded == pkcs7Unpad(plaintext)
       IN IF ~unpadded.ok
            THEN [kind |-> "err", err |-> "failed to unpad", pt |-> <<>>,
                  sigChecked |-> TRUE, aes |-> TRUE]
            ELSE [kind |-> "ok", err |-> "", pt |-> unpadded.data,
                  sigChecked |-> TRUE, aes |-> TRUE]

\* ------------------------------------------------------------ JSON
\* json.Marshal of the request map: '{' method [params] '}'
MethodOf(cmd) ==
  CASE cmd = "GetDeviceInfo" -> <<1>>
    [] OTHER -> <<6, 2>>

jsonMarshal(cmd) == <<123>> \o MethodOf(cmd) \o <<125>>

\* device reply texts: '{' error_code result '}'
ReplyOK == <<123, 48, 7, 125>>
ReplyDeviceError == <<123, 49, 7, 125>>
ReplyNotJSON == <<60, 104>>

\* json.Unmarshal(respJSON, &resp) into klapResponse
jsonUnmarshal(text) ==
  IF Len(text) = 4 /\ text[1] = 123 /\ text[4] = 125
    THEN [ok |-> TRUE, ErrorCode |-> text[2] - 48, Result |-> <<text[3]>>]
    ELSE [ok |-> FALSE, ErrorCode |-> 0, Result |-> <<>>]

\* ------------------------------------------------------------ state
VARIABLES
  session,    \* klapSession of each session
  jar,        \* cookie held by each cookie jar
  conn,       \* position and error of the Client.Connect call of each session
  mu,         \* P110.mu: the caller holding it, 0 when free
  call,       \* each caller's command call: position, locals, result
  ncalls,     \* number of command calls started so far
  wire,       \* the POSTs each session has put on the network, in order
  assigned,   \* the seq values encrypt handed out on each session, in order
  hsReply,    \* the replies the handshake of each session received
  failed,     \* a request on the session has returned an error
  crashed,    \* the process has panicked
  waiting,    \* the callers blocked in p.mu.Lock() of each P110, by arrival
  disc,       \* the running Discover / DiscoverFirst call
  prog,       \* main / runDaemon: mode, position and device list
  tq,         \* the last GetEnergyData call: its arguments and parameters
  dm,         \* runDaemon: position, pending signal and tick, the poll cycle
  db,         \* the tables of the store
  fx          \* one call of a function of klap.go: arguments and result

vars == <<session, jar, conn, mu, call, ncalls, wire, assigned, hsReply,
          failed, crashed, waiting, disc, prog, tq, dm, db, fx>>

\* the state of the KLAP sessions and their callers
klapVars == <<session, jar, conn, mu, call, ncalls, wire, assigned, hsReply,
              failed, crashed, waiting>>

NoResult == [kind |-> "none", err |-> "", value |-> <<>>, status |-> 0,
             code |-> 0, seq |-> 0, sigChecked |-> FALSE, aes |-> FALSE]

NoReply == [io |-> FALSE, status |-> 0, readErr |-> FALSE, body |-> NoPayload]

NoHsBody == [len |-> 0, seed |-> "", hash |-> NoDigest]

NoHsReply == [got |-> FALSE, io |-> FALSE, status |-> 0, readErr |-> FALSE,
              body |-> NoHsBody, cookie |-> NoCookie]

IdleCall == [pc |-> "idle", p |-> 0, cmd |-> "", seq |-> 0, payload |-> NoPayload,
             wix |-> 0, reply |-> NoReply, req |-> NoResult, result |-> NoResult]

\* ------------------------------------------------------------ discovery data
\* a UDP datagram as ReadFromUDP returns it: n bytes from addr, of which the
\* bytes after the 16-byte header are the text body; body is what that text
\* holds: json tells whether it parses into discoveryResponse
NoBody == [json |-> FALSE, error_code |-> 0, ip |-> "", mac |-> "",
           encrypt_type |-> ""]

NoPacket == [n |-> 0, addr |-> "", body |-> NoBody]

\* the MAC address a responder reports
MacOf(addr) == IF addr = "192.0.2.10" THEN "AA-BB-CC-DD-EE-10" ELSE "AA-BB-CC-DD-EE-11"

\* the scheme a responder advertises in mgt_encrypt_schm.encrypt_type
SchemeOf(addr) == IF addr = "192.0.2.10" THEN "KLAP" ELSE "AES"

\* the datagrams that may arrive on the discovery socket
Packets ==
  {[n |-> k, addr |-> "192.0.2.10", body |-> NoBody] : k \in {0, 16}}
  \cup {[n |-> 17, addr |-> "192.0.2.10", body |-> NoBody]}
  \cup {[n |-> 120, addr |-> "192.0.2.10",
         body |-> [json |-> TRUE, error_code |-> -1, ip |-> "192.0.2.10",
                   mac |-> MacOf("192.0.2.10"), encrypt_type |-> "KLAP"]]}
  \cup UNION {{[n |-> 120, addr |-> a,
                body |-> [json |-> TRUE, error_code |-> 0, ip |-> i,
                          mac |-> MacOf(a), encrypt_type |-> SchemeOf(a)]] :
                 i \in {"", a}} : a \in Responders}

\* DiscoveredDevice
Device(ip, mac) == [IP |-> ip, MAC |-> mac]

\* the Discover / DiscoverFirst call: position, clock and deadline in ticks,
\* ctx.Done(), the locals devices, seen and the datagram last read (rerr is
\* the error of that read), and the values returned
NoDiscovery ==
  [fn |-> "", pc |-> "idle", now |-> 0, deadline |-> 0, cancelled |-> FALSE,
   devices |-> <<>>, seen |-> {}, pkt |-> NoPacket, rerr |-> "",
   result |-> <<>>, err |-> ""]

\* main / runDaemon: the mode chosen by the flags, the position and deviceIPs
NoProgram == [mode |-> "", pc |-> "idle", deviceIPs |-> <<>>]

\* ------------------------------------------------------------ energy data
\* a GetEnergyData call: arguments, the parameters built and the error
NoQuery == [pc |-> "idle", interval |-> "", t |-> [unix |-> 0, loc |-> "UTC"],
            StartTimestamp |-> 0, EndTimestamp |-> 0, Interval |-> 0,
            err |-> ""]

\* ------------------------------------------------------------ daemon data
\* what a command of P110 hands to pollDevices
NoValue == [MAC |-> "", CurrentPower |-> 0, Data |-> <<>>, TodayEnergy |-> 0,
            TodayRuntime |-> 0]

\* time.Now() of a poll cycle: the date text of dateStr and now.Year()
NoTime == [date |-> "", year |-> 0]

\* runDaemon from the initial poll on: position; sig and tick tell whether
\* sigChan and ticker.C hold a value, ticker whether the ticker was started;
\* of pollDevices the time now, the device index i, the query q reached on
\* that device and the mac read; last is the query that returned last, with
\* its outcome; polls counts the poll cycles started
NoDaemon ==
  [pc |-> "idle", deviceIPs |-> <<>>, sig |-> FALSE, tick |-> FALSE,
   ticker |-> FALSE, now |-> NoTime, i |-> 0, q |-> "", mac |-> "",
   last |-> [q |-> "", kind |-> ""], polls |-> 0,
   stats |-> <<>>]

\* ------------------------------------------------------------ store data
\* the last Insert call on the store: the table, the row given and the error
NoInsert == [table |-> "", row |-> <<>>, err |-> ""]

\* the tables created by Store.init, each a sequence of rows in the order of
\* their id, and the last Insert call
EmptyStore ==
  [readings |-> <<>>, hourly |-> <<>>, daily |-> <<>>, monthly |-> <<>>,
   op |-> NoInsert]

\* ------------------------------------------------------------ function calls
\* one call of a function of klap.go: its name, arguments and result
NoCall == [fn |-> "", in |-> <<>>, out |-> <<>>]

\* one http.Client, and so one cookie jar, shared by all sessions
JarOf_Shared(s) == 1

\* the cookie jar of the http.Client that newKlapSession gives session s
JarOf(s) == s

Init ==
  /\ session = [s \in Sessions |-> NoSession]
  /\ jar = [s \in Sessions |-> NoCookie]
  /\ conn = [s \in Sessions |-> [st |-> "idle", err |-> ""]]
  /\ mu = [s \in Sessions |-> 0]
  /\ call = [c \in Callers |-> IdleCall]
  /\ ncalls = 0
  /\ wire = [s \in Sessions |-> <<>>]
  /\ assigned = [s \in Sessions |-> <<>>]
  /\ hsReply = [s \in Sessions |-> [hs1 |-> NoHsReply, hs2 |-> NoHsReply]]
  /\ failed = [s \in Sessions |-> FALSE]
  /\ crashed = FALSE
  /\ waiting = [s \in Sessions |-> <<>>]
  /\ disc = NoDiscovery
  /\ prog = NoProgram
  /\ tq = NoQuery
  /\ dm = NoDaemon
  /\ db = EmptyStore
  /\ fx = NoCall

\* a POST as it appears on the network
Post(path, query, cookie, seed, hash, payload) ==
  [path |-> path, query |-> query, cookie |-> cookie, seed |-> seed,
   hash |-> hash, payload |-> payload]

\* ------------------------------------------------------------ Client.Connect
\* newKlapSession: fresh jar, random local seed, auth hash of the credentials
newKlapSession(ip, localSeed) ==
  [NoSession EXCEPT !.localSeed = localSeed,
                    !.authHash = generateAuthHash(Username, Password),
                    !.host = ip]

\* Connect up to the handshake1 POST
Connect(s, ip, localSeed) ==
  /\ ~crashed
  /\ conn[s].st = "idle"
  /\ session' = [session EXCEPT ![s] = newKlapSession(ip, localSeed)]
  /\ jar' = [jar EXCEPT ![JarOf(s)] = NoCookie]
  /\ conn' = [conn EXCEPT ![s].st = "hs1"]
  /\ UNCHANGED <<mu, call, ncalls, wire, assigned, hsReply, failed, crashed,
                 waiting, disc, prog, tq,
                 dm, db, fx>>

\* newKlapSession fails (rand.Read): Connect returns the error
ConnectFail(s) ==
  /\ ~crashed
  /\ conn[s].st = "idle"
  /\ conn' = [conn EXCEPT ![s] = [st |-> "failed", err |-> "failed to create session"]]
  /\ UNCHANGED <<session, jar, mu, call, ncalls, wire, assigned, hsReply,
                 failed, crashed, waiting, disc, prog, tq,
                 dm, db, fx>>

\* handshake1: POST the local seed
Handshake1Post(s) ==
  /\ ~crashed
  /\ conn[s].st = "hs1"
  /\ wire' = [wire EXCEPT ![s] = Append(@,
        Post("/handshake1", <<>>, jar[JarOf(s)], session[s].localSeed, NoDigest,
             NoPayload))]
  /\ conn' = [conn EXCEPT ![s].st = "hs1Sent"]
  /\ UNCHANGED <<session, jar, mu, call, ncalls, assigned, hsReply, failed,
                 crashed, waiting, disc, prog, tq,
                 dm, db, fx>>

\* the replies a device (or the network) may give to handshake1 of session s
Hs1Replies(s) ==
  LET cookie == [id |-> s]
      good(r, a) == sha256Hash(<<session[s].localSeed, r, a>>)
      swapped(r) == sha256Hash(<<r, session[s].localSeed, session[s].authHash>>)
      ok(body, ck) == [got |-> TRUE, io |-> FALSE, status |-> StatusOK,
                       readErr |-> FALSE, body |-> body, cookie |-> ck]
  IN {[NoHsReply EXCEPT !.got = TRUE, !.io = TRUE],
      [NoHsReply EXCEPT !.got = TRUE, !.status = 403, !.cookie = cookie],
      [NoHsReply EXCEPT !.got = TRUE, !.status = StatusOK, !.readErr = TRUE]}
     \cup {ok([len |-> 48, seed |-> r, hash |-> good(r, session[s].authHash)], ck) :
             r \in RemoteSeeds, ck \in {cookie, NoCookie}}
     \cup {ok([len |-> n, seed |-> "Rpos",
               hash |-> good("Rpos", session[s].authHash)], cookie) : n \in {47, 49}}
     \cup {ok([len |-> 48, seed |-> "Rpos", hash |-> h], cookie) :
             h \in {good("Rpos", OtherAuthHash), swapped("Rpos")}}

\* what handshake1 does with a reply: the error it returns ("" for nil) and
\* the remote seed it stored
handshake1(s, r) ==
  IF r.io THEN [err |-> "POST request failed", s |-> s]
  ELSE IF r.status # StatusOK THEN [err |-> "handshake1 returned status", s |-> s]
  ELSE IF r.readErr THEN [err |-> "failed to read response body", s |-> s]
  ELSE IF r.body.len # 48
    THEN [err |-> "unexpected handshake1 response length", s |-> s]
  ELSE LET s1 == [s EXCEPT !.remoteSeed = r.body.seed]
       IN IF r.body.hash # calculateServerHash(s1)
            THEN [err |-> "server hash verification failed", s |-> s1]
            ELSE [err |-> "", s |-> s1]

\* the http.Client stores the cookies of every response it receives
SetCookies(j, r) == IF ~r.io /\ r.cookie # NoCookie THEN r.cookie ELSE j

Handshake1Reply(s, r) ==
  /\ ~crashed
  /\ conn[s].st = "hs1Sent"
  /\ LET out == handshake1(session[s], r)
     IN /\ session' = [session EXCEPT ![s] = out.s]
        /\ conn' = [conn EXCEPT ![s] =
                      IF out.err = "" THEN [st |-> "hs2", err |-> ""]
                      ELSE [st |-> "failed", err |-> out.err]]
  /\ jar' = [jar EXCEPT ![JarOf(s)] = SetCookies(@, r)]
  /\ hsReply' = [hsReply EXCEPT ![s].hs1 = r]
  /\ UNCHANGED <<mu, call, ncalls, wire, assigned, failed, crashed, waiting,
                 disc, prog, tq,
                 dm, db, fx>>

\* handshake2: POST the client hash, with the cookies of the jar
Handshake2Post(s) ==
  /\ ~crashed
  /\ conn[s].st = "hs2"
  /\ wire' = [wire EXCEPT ![s] = Append(@,
        Post("/handshake2", <<>>, jar[JarOf(s)], "", calculateClientHash(session[s]),
             NoPayload))]
  /\ conn' = [conn EXCEPT ![s].st = "hs2Sent"]
  /\ UNCHANGED <<session, jar, mu, call, ncalls, assigned, hsReply, failed,
                 crashed, waiting, disc, prog, tq,
                 dm, db, fx>>

Hs2Replies ==
  {[NoHsReply EXCEPT !.got = TRUE, !.io = TRUE],
   [NoHsReply EXCEPT !.got = TRUE, !.status = 403],
   [NoHsReply EXCEPT !.got = TRUE, !.status = 400],
   [NoHsReply EXCEPT !.got = TRUE, !.status = StatusOK]}

\* handshake2 without the check of the status code
handshake2_NoStatusCheck(r) == IF r.io THEN "POST request failed" ELSE ""

\* what handshake2 does with a reply: the error it returns ("" for nil)
handshake2(r) ==
  IF r.io THEN "POST request failed"
  ELSE IF r.status # StatusOK THEN "handshake2 returned status"
  ELSE ""

\* handshake2 reply, then deriveKeys and the return of Connect
Handshake2Reply(s, r) ==
  /\ ~crashed
  /\ conn[s].st = "hs2Sent"
  /\ IF handshake2(r) = ""
       THEN /\ session' = [session EXCEPT ![s] = deriveKeys(@)]
            /\ conn' = [conn EXCEPT ![s] = [st |-> "connected", err |-> ""]]
       ELSE /\ session' = session
            /\ conn' = [conn EXCEPT ![s] = [st |-> "failed", err |-> handshake2(r)]]
  /\ jar' = [jar EXCEPT ![JarOf(s)] = SetCookies(@, r)]
  /\ hsReply' = [hsReply EXCEPT ![s].hs2 = r]
  /\ UNCHANGED <<mu, call, ncalls, wire, assigned, failed, crashed, waiting,
                 disc, prog, tq,
                 dm, db, fx>>

\* ------------------------------------------------------------ commands
\* a command is called on a connected P110; the caller reaches p.mu.Lock() and
\* joins those waiting for it
Call(c, p, cmd) ==
  /\ ~crashed
  /\ call[c].pc = "idle"
  /\ conn[p].st = "connected"
  /\ ncalls < MaxCalls
  /\ call' = [call EXCEPT ![c] = [IdleCall EXCEPT !.pc = "lock", !.p = p, !.cmd = cmd]]
  /\ waiting' = [waiting EXCEPT ![p] = Append(@, c)]
  /\ ncalls' = ncalls + 1
  /\ UNCHANGED <<session, jar, conn, mu, wire, assigned, hsReply, failed,
                 crashed, disc, prog, tq,
                 dm, db, fx>>

\* the sequence q without the element c
Without(q, c) == SelectSeq(q, LAMBDA x : x # c)

\* sendRequest entered without waiting for p.mu
Lock_NoMutex(c) ==
  /\ ~crashed
  /\ call[c].pc = "lock"
  /\ mu' = [mu EXCEPT ![call[c].p] = c]
  /\ waiting' = [waiting EXCEPT ![call[c].p] = Without(@, c)]
  /\ call' = [call EXCEPT ![c].pc = "encrypt"]
  /\ UNCHANGED <<session, jar, conn, ncalls, wire, assigned, hsReply, failed,
                 crashed, disc, prog, tq,
                 dm, db, fx>>

\* p.mu.Lock() returns: sync.Mutex hands the lock to any one of the callers
\* trying to acquire it, whatever the order in which they arrived
Lock(c) ==
  /\ ~crashed
  /\ call[c].pc = "lock"
  /\ mu[call[c].p] = 0
  /\ mu' = [mu EXCEPT ![call[c].p] = c]
  /\ waiting' = [waiting EXCEPT ![call[c].p] = Without(@, c)]
  /\ call' = [call EXCEPT ![c].pc = "encrypt"]
  /\ UNCHANGED <<session, jar, conn, ncalls, wire, assigned, hsReply, failed,
                 crashed, disc, prog, tq,
                 dm, db, fx>>

\* encrypt counting in one counter for all sessions
Encrypt_GlobalSeq(c) ==
  /\ ~crashed
  /\ call[c].pc = "encrypt"
  /\ LET p == call[c].p
         e == encrypt(session[p], jsonMarshal(call[c].cmd))
     IN /\ session' = [s \in Sessions |-> [session[s] EXCEPT !.seq = e.newSeq]]
        /\ assigned' = [assigned EXCEPT ![p] = Append(@, e.seq)]
        /\ call' = [call EXCEPT ![c].pc = "post", ![c].seq = e.seq,
                                ![c].payload = e.payload]
  /\ UNCHANGED <<jar, conn, mu, ncalls, wire, hsReply, failed, crashed,
                 waiting, disc, prog, tq,
                 dm, db, fx>>

\* json.Marshal(req), then s.encrypt(payload) at the head of request
Encrypt(c) ==
  /\ ~crashed
  /\ call[c].pc = "encrypt"
  /\ LET p == call[c].p
         e == encrypt(session[p], jsonMarshal(call[c].cmd))
     IN /\ session' = [session EXCEPT ![p].seq = e.newSeq]
        /\ assigned' = [assigned EXCEPT ![p] = Append(@, e.seq)]
        /\ call' = [call EXCEPT ![c].pc = "post", ![c].seq = e.seq,
                                ![c].payload = e.payload]
  /\ UNCHANGED <<jar, conn, mu, ncalls, wire, hsReply, failed, crashed,
                 waiting, disc, prog, tq,
                 dm, db, fx>>

\* the result of request when the POST returned err
PostFailed ==
  [NoResult EXCEPT !.kind = "err", !.err = "POST request failed"]

\* sendRequest wraps the error of request
sendRequestError(req) == req

\* s.httpClient.Post(reqURL, ...): the request reaches the network, or the
\* POST fails before anything is sent
PostRequest(c, sent) ==
  /\ ~crashed
  /\ call[c].pc = "post"
  /\ LET p == call[c].p
     IN IF sent
          THEN /\ wire' = [wire EXCEPT ![p] = Append(@,
                    Post("/request", FormatInt(call[c].seq), jar[JarOf(p)], "",
                         NoDigest, call[c].payload))]
               /\ call' = [call EXCEPT ![c].pc = "posted",
                                       ![c].wix = Len(wire[p]) + 1]
          ELSE /\ wire' = wire
               /\ call' = [call EXCEPT ![c].pc = "done",
                                       ![c].reply = [NoReply EXCEPT !.io = TRUE],
                                       ![c].req = PostFailed,
                                       ![c].result = sendRequestError(PostFailed)]
  /\ UNCHANGED <<session, jar, conn, mu, ncalls, assigned, hsReply, failed,
                 crashed, waiting, disc, prog, tq,
                 dm, db, fx>>

\* the replies a device (or the network) may give to the request with seq
RequestReplies(s, seq) ==
  LET iv == BuildIV(s.ivSeq, seq)
      enc(text) == CBCEncrypt(s.key, iv, pkcs7Pad(text, BlockSize))
      signed(ct) == Frame(Signature(s.sig, seq, ct), ct)
      otherSig == Prefix(sha256Hash(<<"ldk", "other">>), 28)
      body(st, b) == [NoReply EXCEPT !.status = st, !.body = b]
  IN {[NoReply EXCEPT !.io = TRUE],
      [NoReply EXCEPT !.status = StatusOK, !.readErr = TRUE],
      body(403, signed(enc(ReplyOK))),
      body(500, NoPayload)}
     \cup {body(StatusOK, signed(enc(t))) :
             t \in {ReplyOK, ReplyDeviceError, ReplyNotJSON, <<>>}}
     \cup {body(StatusOK, Frame(Signature(k, q, enc(ReplyOK)), enc(ReplyOK))) :
             k \in {s.sig, otherSig}, q \in {seq, Inc32(seq)}}
     \cup {body(StatusOK, Frame(Signature(s.sig, seq, enc(ReplyOK)),
                                [enc(ReplyOK) EXCEPT !.flip = 1])),
           body(StatusOK, [signed(enc(ReplyOK)) EXCEPT !.sig.alg = "sha256 xor 1"]),
           body(StatusOK, [NoPayload EXCEPT !.len = 31]),
           body(StatusOK, NoPayload),
           body(StatusOK, signed(CBCEncrypt(s.key, iv, <<>>))),
           body(StatusOK, signed(CBCEncrypt(s.key, iv, <<123, 48, 7, 125, 1>>))),
           body(StatusOK, signed(CBCEncrypt(s.key, iv, Repeat(0, BlockSize)))),
           body(StatusOK, signed(CBCEncrypt(s.key, iv, ReplyOK \o Repeat(11, 12)))),
           body(StatusOK, signed(CBCEncrypt(s.key, BuildIV(s.ivSeq, Inc32(seq)),
                                            pkcs7Pad(ReplyOK, BlockSize))))}

\* request that reads and decrypts the body whatever the status
request_NoStatusCheck(s, seq, r) ==
  IF r.io THEN [NoResult EXCEPT !.kind = "err", !.err = "POST request failed"]
  ELSE IF r.readErr
    THEN [NoResult EXCEPT !.kind = "err", !.err = "failed to read response body"]
  ELSE LET d == decrypt(s, r.body, seq)
       IN [NoResult EXCEPT !.kind = d.kind, !.err = d.err, !.value = d.pt,
                           !.seq = seq, !.sigChecked = d.sigChecked,
                           !.aes = d.aes]

\* request after the POST: the status check, the body read and decrypt
request(s, seq, r) ==
  IF r.io THEN PostFailed
  ELSE IF r.status # StatusOK
    THEN [NoResult EXCEPT !.kind = "err", !.err = "request returned status",
                          !.status = r.status]
  ELSE IF r.readErr
    THEN [NoResult EXCEPT !.kind = "err", !.err = "failed to read response body"]
  ELSE LET d == decrypt(s, r.body, seq)
       IN [NoResult EXCEPT !.kind = d.kind, !.err = d.err, !.value = d.pt,
                           !.seq = seq, !.sigChecked = d.sigChecked,
                           !.aes = d.aes]

\* sendRequest that hands out the result object whatever the error_code
sendRequest_ResultOnError(req) ==
  IF req.kind # "ok" THEN sendRequestError(req)
  ELSE LET resp == jsonUnmarshal(req.value)
       IN IF ~resp.ok
            THEN [NoResult EXCEPT !.kind = "err",
                                  !.err = "failed to unmarshal response"]
          ELSE IF resp.ErrorCode # 0
            THEN [NoResult EXCEPT !.kind = "err",
                                  !.err = "device returned error code",
                                  !.code = resp.ErrorCode,
                                  !.value = resp.Result]
          ELSE [NoResult EXCEPT !.kind = "ok", !.value = resp.Result]

\* sendRequest after request: unmarshal the reply and look at error_code
sendRequest(req) ==
  IF req.kind # "ok" THEN sendRequestError(req)
  ELSE LET resp == jsonUnmarshal(req.value)
       IN IF ~resp.ok
            THEN [NoResult EXCEPT !.kind = "err",
                                  !.err = "failed to unmarshal response"]
          ELSE IF resp.ErrorCode # 0
            THEN [NoResult EXCEPT !.kind = "err",
                                  !.err = "device returned error code",
                                  !.code = resp.ErrorCode]
          ELSE [NoResult EXCEPT !.kind = "ok", !.value = resp.Result]

\* json.Unmarshal(result, &info): a result that is a JSON object decodes
decodeResult(result) ==
  IF result = <<7>> THEN [ok |-> TRUE, value |-> "object"]
  ELSE [ok |-> FALSE, value |-> "nil"]

\* what the command returns to its caller from the outcome res of sendRequest:
\* GetDeviceInfo decodes the result, TurnOff returns the error alone
command(cmd, res) ==
  IF cmd = "TurnOff" THEN [value |-> "nil", err |-> res.err, code |-> res.code]
  ELSE IF res.kind # "ok" THEN [value |-> "nil", err |-> res.err, code |-> res.code]
  ELSE IF ~decodeResult(res.value).ok
    THEN [value |-> "nil", err |-> "failed to parse device info", code |-> 0]
  ELSE [value |-> decodeResult(res.value).value, err |-> "", code |-> 0]

\* the POST returns (reply or error) and the call runs to its return statement;
\* a panic in decrypt ends the process
Reply(c, r) ==
  /\ ~crashed
  /\ call[c].pc = "posted"
  /\ LET p == call[c].p
         req == request(session[p], call[c].seq, r)
         res == sendRequest(req)
     IN /\ call' = [call EXCEPT ![c].pc = IF req.kind = "panic" THEN "panic" ELSE "done",
                                ![c].reply = r, ![c].req = req, ![c].result = res]
        /\ crashed' = (req.kind = "panic")
  /\ UNCHANGED <<session, jar, conn, mu, ncalls, wire, assigned, hsReply,
                 failed, waiting, disc, prog, tq,
                 dm, db, fx>>

\* a return that unlocks p.mu only on the success path
Return_KeepLockOnError(c) ==
  /\ ~crashed
  /\ call[c].pc = "done"
  /\ mu' = [mu EXCEPT ![call[c].p] = IF call[c].result.kind = "ok" THEN 0 ELSE @]
  /\ failed' = [failed EXCEPT ![call[c].p] = @ \/ call[c].result.kind = "err"]
  /\ call' = [call EXCEPT ![c] = IdleCall]
  /\ UNCHANGED <<session, jar, conn, ncalls, wire, assigned, hsReply, crashed,
                 waiting, disc, prog, tq,
                 dm, db, fx>>

\* the deferred p.mu.Unlock() and the return to the caller
Return(c) ==
  /\ ~crashed
  /\ call[c].pc = "done"
  /\ mu' = [mu EXCEPT ![call[c].p] = 0]
  /\ failed' = [failed EXCEPT ![call[c].p] = @ \/ call[c].result.kind = "err"]
  /\ call' = [call EXCEPT ![c] = IdleCall]
  /\ UNCHANGED <<session, jar, conn, ncalls, wire, assigned, hsReply, crashed,
                 waiting, disc, prog, tq,
                 dm, db, fx>>

\* ------------------------------------------------------------ discovery
\* ctx.Err() of a cancelled context
ctxErr == "context canceled"

\* the fmt.Errorf of DiscoverFirstWithTimeout when the window elapsed
notFound == "no Tapo devices found on the network"

\* the errors of the socket setup and of SetReadDeadline
SetupErrors ==
  {"failed to create UDP socket", "failed to send discovery broadcast",
   "failed to set read deadline"}

\* what a Discover call returns: the devices collected and the error
returnDiscover(d, err) ==
  [d EXCEPT !.pc = "returned", !.result = d.devices, !.err = err]

\* what a DiscoverFirst call returns: the device (none for nil) and the error
returnFirst(d, found, err) ==
  [d EXCEPT !.pc = "returned", !.result = found, !.err = err]

\* the checks of a loop that lets a reply with a non-zero error_code through
skipped_AnyErrorCode(pkt) ==
  IF pkt.n <= 16 THEN TRUE
  ELSE ~pkt.body.json

\* the three checks that make the loop skip a datagram: n <= 16, a body that
\* does not unmarshal, a non-zero error_code
skipped(pkt) ==
  IF pkt.n <= 16 THEN TRUE
  ELSE IF ~pkt.body.json THEN TRUE
  ELSE pkt.body.error_code # 0

\* ip := resp.Result.IP, or addr.IP.String() when that is empty
ipOf(pkt) == IF pkt.body.ip = "" THEN pkt.addr ELSE pkt.body.ip

\* the body of the loop of DiscoverWithTimeout without the seen map
discoverPacket_NoSeen(d, pkt) ==
  LET d1 == [d EXCEPT !.pkt = pkt, !.rerr = "", !.pc = "loop"]
  IN IF skipped(pkt) THEN d1
     ELSE [d1 EXCEPT !.devices = Append(@, Device(ipOf(pkt), pkt.body.mac))]

\* the body of the loop of DiscoverWithTimeout after a successful read
discoverPacket(d, pkt) ==
  LET d1 == [d EXCEPT !.pkt = pkt, !.rerr = "", !.pc = "loop"]
      ip == ipOf(pkt)
  IN IF skipped(pkt) THEN d1
     ELSE IF ip \in d.seen THEN d1
     ELSE [d1 EXCEPT !.seen = @ \cup {ip},
                     !.devices = Append(@, Device(ip, pkt.body.mac))]

\* the body of the loop of DiscoverFirstWithTimeout after a successful read
discoverFirstPacket(d, pkt) ==
  LET d1 == [d EXCEPT !.pkt = pkt, !.rerr = "", !.pc = "loop"]
  IN IF skipped(pkt) THEN d1
     ELSE returnFirst(d1, <<Device(ipOf(pkt), pkt.body.mac)>>, "")

\* the head of the loop without the check of the deadline
loopHead_NoDeadline(d, setOK) ==
  IF d.cancelled
    THEN IF d.fn = "Discover" THEN returnDiscover(d, ctxErr)
         ELSE returnFirst(d, <<>>, ctxErr)
  ELSE IF ~setOK
    THEN IF d.fn = "Discover" THEN returnDiscover(d, "failed to set read deadline")
         ELSE returnFirst(d, <<>>, "failed to set read deadline")
  ELSE [d EXCEPT !.pc = "read"]

\* the head of the loop: ctx.Done(), the deadline, SetReadDeadline
loopHead(d, setOK) ==
  IF d.cancelled
    THEN IF d.fn = "Discover" THEN returnDiscover(d, ctxErr)
         ELSE returnFirst(d, <<>>, ctxErr)
  ELSE IF d.deadline - d.now <= 0
    THEN IF d.fn = "Discover" THEN returnDiscover(d, "")
         ELSE returnFirst(d, <<>>, notFound)
  ELSE IF ~setOK
    THEN IF d.fn = "Discover" THEN returnDiscover(d, "failed to set read deadline")
         ELSE returnFirst(d, <<>>, "failed to set read deadline")
  ELSE [d EXCEPT !.pc = "read"]

\* Discover / DiscoverFirst up to the loop: socket, broadcast, deadline
DiscoverStart(fn, timeout, setup) ==
  /\ ~crashed
  /\ disc.pc = "idle"
  /\ disc' =
       LET d == [disc EXCEPT !.fn = fn, !.now = 0, !.deadline = timeout]
       IN IF setup = "ok" THEN [d EXCEPT !.pc = "loop"]
          ELSE [d EXCEPT !.pc = "returned", !.err = setup]
  /\ UNCHANGED <<klapVars, prog, tq,
                 dm, db, fx>>

\* one pass over the head of the loop, up to the blocking read or a return
LoopHead(setOK) ==
  /\ ~crashed
  /\ disc.pc = "loop"
  /\ disc' = loopHead(disc, setOK)
  /\ UNCHANGED <<klapVars, prog, tq,
                 dm, db, fx>>

\* ReadFromUDP returns a datagram before the deadline; the rest of the pass
Receive(pkt) ==
  /\ ~crashed
  /\ disc.pc = "read"
  /\ disc.now < disc.deadline
  /\ disc' = IF disc.fn = "Discover" THEN discoverPacket(disc, pkt)
             ELSE discoverFirstPacket(disc, pkt)
  /\ UNCHANGED <<klapVars, prog, tq,
                 dm, db, fx>>

\* ReadFromUDP fails with an error that is not a timeout: continue
ReadError ==
  /\ ~crashed
  /\ disc.pc = "read"
  /\ disc.now < disc.deadline
  /\ disc' = [disc EXCEPT !.pc = "loop", !.rerr = "read error"]
  /\ UNCHANGED <<klapVars, prog, tq,
                 dm, db, fx>>

\* ReadFromUDP reaches the read deadline: break, and the return after the loop
ReadTimeout ==
  /\ ~crashed
  /\ disc.pc = "read"
  /\ disc.now >= disc.deadline
  /\ disc' = LET d == [disc EXCEPT !.rerr = "i/o timeout"]
             IN IF d.fn = "Discover" THEN returnDiscover(d, "")
                ELSE returnFirst(d, <<>>, notFound)
  /\ UNCHANGED <<klapVars, prog, tq,
                 dm, db, fx>>

\* the clock advances while the call runs
Tick ==
  /\ disc.pc \in {"loop", "read"}
  /\ disc.now < MaxClock
  /\ disc' = [disc EXCEPT !.now = @ + 1]
  /\ UNCHANGED <<klapVars, prog, tq,
                 dm, db, fx>>

\* the context of the call is cancelled (cancel() or its own timeout)
Cancel ==
  /\ disc.pc \in {"loop", "read"}
  /\ ~disc.cancelled
  /\ disc' = [disc EXCEPT !.cancelled = TRUE]
  /\ UNCHANGED <<klapVars, prog, tq,
                 dm, db, fx>>

\* ------------------------------------------------------------ main
\* the discovery function each mode calls: DiscoverWithTimeout with -all,
\* DiscoverFirst without
FnOf(mode) == IF mode \in {"all", "daemon all"} THEN "Discover" ELSE "DiscoverFirst"

\* the IPs of a device list, in order
IPsOf(devices) == [i \in 1..Len(devices) |-> devices[i].IP]

\* main / runDaemon up to the choice of the devices: with -ip the list is that
\* address, otherwise discovery is called
MainStart(mode, ip) ==
  /\ ~crashed
  /\ prog.pc = "idle"
  /\ prog' = IF mode \in {"ip", "daemon ip"}
               THEN [mode |-> mode, pc |-> "connect", deviceIPs |-> <<ip>>]
               ELSE [mode |-> mode, pc |-> "discover", deviceIPs |-> <<>>]
  /\ UNCHANGED <<klapVars, disc, tq,
                 dm, db, fx>>

\* discovery has returned: exit on its error or on an empty list, else
\* deviceIPs is every discovered IP; of the discovery call only the values it
\* returned remain
MainDevices ==
  /\ ~crashed
  /\ prog.pc = "discover"
  /\ disc.pc = "returned"
  /\ prog' = IF disc.err # "" \/ Len(disc.result) = 0
               THEN [prog EXCEPT !.pc = "exit"]
               ELSE [prog EXCEPT !.pc = "connect", !.deviceIPs = IPsOf(disc.result)]
  /\ disc' = [NoDiscovery EXCEPT !.fn = disc.fn, !.pc = "returned",
                                 !.result = disc.result, !.err = disc.err]
  /\ UNCHANGED <<klapVars, tq,
                 dm, db, fx>>

\* ------------------------------------------------------------ time.Time
\* A time.Time is an instant in Unix seconds with a *time.Location; a location
\* is the list of its offset changes, each from a UTC instant on.
SecondsPerDay == 86400

IsLeap(y) == (y % 4 = 0 /\ y % 100 # 0) \/ y % 400 = 0

DaysIn(y, m) ==
  IF m = 2 THEN (IF IsLeap(y) THEN 29 ELSE 28)
  ELSE IF m \in {4, 6, 9, 11} THEN 30 ELSE 31

\* days from 1970-01-01 to January 1 of year y
DaysBeforeYear(y) ==
  365 * (y - 1970) + (((y - 1) \div 4) - 492) - (((y - 1) \div 100) - 19)
    + (((y - 1) \div 400) - 4)

\* days from January 1 of year y to the first of month m
DaysBeforeMonth(y, m) ==
  <<0, 31, 59, 90, 120, 151, 181, 212, 243, 273, 304, 334>>[m]
    + (IF m > 2 /\ IsLeap(y) THEN 1 ELSE 0)

\* the seconds since 1970-01-01 of second sec of a UTC date
At(y, m, d, sec) ==
  (DaysBeforeYear(y) + DaysBeforeMonth(y, m) + d - 1) * SecondsPerDay + sec

\* the offset changes of each location, as instants in seconds since
\* 1970-01-01: UTC, a fixed offset, and two with daylight saving time (rules
\* of 2023 to 2025)
Transitions(loc) ==
  CASE loc = "UTC" -> << [at |-> 0, offset |-> 0] >>
    [] loc = "Asia/Kolkata" -> << [at |-> 0, offset |-> 19800] >>
    [] loc = "Europe/Berlin" ->
         << [at |-> 0, offset |-> 3600],
            [at |-> 1679792400, offset |-> 7200],  \* 2023-03-26 01:00 UTC
            [at |-> 1698541200, offset |-> 3600],  \* 2023-10-29 01:00 UTC
            [at |-> 1711846800, offset |-> 7200],  \* 2024-03-31 01:00 UTC
            [at |-> 1729990800, offset |-> 3600],  \* 2024-10-27 01:00 UTC
            [at |-> 1743296400, offset |-> 7200],  \* 2025-03-30 01:00 UTC
            [at |-> 1761440400, offset |-> 3600] >>  \* 2025-10-26 01:00 UTC
    [] OTHER ->
         << [at |-> 0, offset |-> -18000],
            [at |-> 1678604400, offset |-> -14400],  \* 2023-03-12 07:00 UTC
            [at |-> 1699164000, offset |-> -18000],  \* 2023-11-05 06:00 UTC
            [at |-> 1710054000, offset |-> -14400],  \* 2024-03-10 07:00 UTC
            [at |-> 1730613600, offset |-> -18000],  \* 2024-11-03 06:00 UTC
            [at |-> 1741503600, offset |-> -14400],  \* 2025-03-09 07:00 UTC
            [at |-> 1762063200, offset |-> -18000] >>  \* 2025-11-02 06:00 UTC

\* Location.lookup(sec): the offset in force at the UTC instant sec and the
\* span of instants over which it is in force
lookup[loc \in Locations, sec \in Int] ==
  LET tr == Transitions(loc)
      i == CHOOSE k \in 1..Len(tr) :
             /\ tr[k].at <= sec
             /\ k < Len(tr) => sec < tr[k + 1].at
  IN [offset |-> tr[i].offset, start |-> tr[i].at,
      end |-> IF i < Len(tr) THEN tr[i + 1].at ELSE MaxInt32]

\* the year in which the day counted from 1970-01-01 falls
YearOfDay[days \in Int] ==
  CHOOSE yy \in Years :
    DaysBeforeYear(yy) <= days /\ days < DaysBeforeYear(yy + 1)

\* the month in which day yd (from 0) of year y falls
MonthOfDay[y \in Int, yd \in Int] ==
  CHOOSE mm \in 1..12 :
    /\ DaysBeforeMonth(y, mm) <= yd
    /\ yd < DaysBeforeMonth(y, mm) + DaysIn(y, mm)

\* the civil date and the second of the day of a count of seconds
Civil[sec \in Int] ==
  LET days == sec \div SecondsPerDay
      y == YearOfDay[days]
      yd == days - DaysBeforeYear(y)
      m == MonthOfDay[y, yd]
  IN [year |-> y, month |-> m, day |-> yd - DaysBeforeMonth(y, m) + 1,
      sec |-> sec % SecondsPerDay]

\* t.Year(), t.Month(), t.Day(): the civil date of t in its location
LocalDate(t) == Civil[t.unix + lookup[t.loc, t.unix].offset]

\* time.Date(y, m, d, 0, 0, sec, 0, loc): the month is normalised into the
\* year, the date is counted as if in UTC, and the offset of the location is
\* then taken off, looked up again when the first guess falls outside the
\* span it is in force
Date[y \in Int, m \in Int, d \in Int, sec \in Int, loc \in Locations] ==
  LET year == y + ((m - 1) \div 12)
      month == ((m - 1) % 12) + 1
      unix == At(year, month, d, sec)
      z == lookup[loc, unix]
      utc == unix - z.offset
      offset == IF utc < z.start \/ utc >= z.end THEN lookup[loc, utc].offset
                ELSE z.offset
  IN [unix |-> unix - offset, loc |-> loc]

\* t.AddDate(years, months, days)
AddDate(t, years, months, days) ==
  LET c == LocalDate(t)
  IN Date[c.year + years, c.month + months, c.day + days, c.sec, t.loc]

\* a duration of whole days added as calendar days
Add_CalendarDays(t, d) == AddDate(t, 0, 0, d \div SecondsPerDay)

\* t.Add(d), d in seconds
Add(t, d) == [t EXCEPT !.unix = @ + d]

\* the quarter start computed from the month counted from 0
getQuarterStartMonth_FromZero(t) == 3 * (LocalDate(t).month \div 3) + 1

getQuarterStartMonth(t) == 3 * ((LocalDate(t).month - 1) \div 3) + 1

getStartEndTimestamps(interval, t) ==
  LET loc == t.loc
      c == LocalDate(t)
  IN CASE interval = "hourly" ->
            LET start == Date[c.year, c.month, c.day, 0, loc]
                end == Add(start, 24 * 3600)
            IN <<start.unix, end.unix>>
       [] interval = "daily" ->
            LET quarterStart == getQuarterStartMonth(t)
                start == Date[c.year, quarterStart, 1, 0, loc]
                end == AddDate(start, 0, 3, 0)
            IN <<start.unix, end.unix>>
       [] interval = "monthly" ->
            LET start == Date[c.year, 1, 1, 0, loc]
                end == Date[c.year + 1, 1, 1, 0, loc]
            IN <<start.unix, end.unix>>
       [] OTHER -> <<0, 0>>

\* a switch whose default case takes the hourly interval
intervalMinutes_DefaultHourly(interval) ==
  CASE interval = "daily" -> IntervalDaily
    [] interval = "monthly" -> IntervalMonthly
    [] OTHER -> IntervalHourly

\* the interval in minutes of GetEnergyData's switch; 0 stands for the
\* default case, which returns the error
intervalMinutes(interval) ==
  CASE interval = "hourly" -> IntervalHourly
    [] interval = "daily" -> IntervalDaily
    [] interval = "monthly" -> IntervalMonthly
    [] OTHER -> 0

\* GetEnergyData up to the call of sendRequest: the timestamps, the interval
\* in minutes or the error of an unknown interval, and the parameters; one
\* call is followed
GetEnergyData(interval, t) ==
  /\ ~crashed
  /\ tq.pc = "idle"
  /\ \E ts \in {getStartEndTimestamps(interval, t)} :
       tq' = IF intervalMinutes(interval) = 0
             THEN [NoQuery EXCEPT !.interval = interval, !.t = t,
                                  !.pc = "error", !.err = "invalid interval"]
             ELSE [NoQuery EXCEPT !.interval = interval, !.t = t,
                                  !.pc = "sent", !.StartTimestamp = ts[1],
                                  !.EndTimestamp = ts[2],
                                  !.Interval = intervalMinutes(interval)]
  /\ UNCHANGED <<klapVars, disc, prog, dm, db, fx>>

\* p.GetEnergyData(interval, t) called by caller c on a connected P110: the
\* timestamps are computed, then an unknown interval returns the error at
\* once, and a known one goes on to sendRequest, where the caller reaches
\* p.mu.Lock()
GetEnergyDataOn(c, p, interval, t) ==
  /\ ~crashed
  /\ call[c].pc = "idle"
  /\ conn[p].st = "connected"
  /\ ncalls < MaxCalls
  /\ ncalls' = ncalls + 1
  /\ \E ts \in {getStartEndTimestamps(interval, t)} :
       IF intervalMinutes(interval) = 0
         THEN /\ tq' = [NoQuery EXCEPT !.interval = interval, !.t = t,
                                       !.pc = "error",
                                       !.err = "invalid interval"]
              /\ UNCHANGED <<call, waiting>>
         ELSE /\ tq' = [NoQuery EXCEPT !.interval = interval, !.t = t,
                                       !.pc = "sent", !.StartTimestamp = ts[1],
                                       !.EndTimestamp = ts[2],
                                       !.Interval = intervalMinutes(interval)]
              /\ call' = [call EXCEPT ![c] = [IdleCall EXCEPT
                            !.pc = "lock", !.p = p, !.cmd = "GetEnergyData"]]
              /\ waiting' = [waiting EXCEPT ![p] = Append(@, c)]
  /\ UNCHANGED <<session, jar, conn, mu, wire, assigned, hsReply, failed,
                 crashed, disc, prog, dm, db, fx>>

\* ------------------------------------------------------------ Store
\* the columns of the UNIQUE constraint of each table
hourlyKey == {"date", "hour", "device_ip"}

dailyKey == {"date", "device_ip"}

monthlyKey == {"year", "month", "device_ip"}

\* the values a row has in the columns cols
KeyOf(r, cols) == [c \in cols |-> r[c]]

\* INSERT with no ON CONFLICT clause and no UNIQUE constraint: a new row
upsert_Append(rows, row, cols) == Append(rows, row)

\* INSERT ... ON CONFLICT(cols) DO UPDATE SET every other column =
\* excluded.column: the row of the key takes the new values and keeps its id,
\* and a key not yet present gets a new row at the end
upsert(rows, row, cols) ==
  IF \E i \in 1..Len(rows) : KeyOf(rows[i], cols) = KeyOf(row, cols)
    THEN [i \in 1..Len(rows) |->
            IF KeyOf(rows[i], cols) = KeyOf(row, cols) THEN row ELSE rows[i]]
    ELSE Append(rows, row)

\* Store.InsertReading on the store d; ok tells whether Exec succeeds
insertReading(d, deviceIP, deviceMAC, powerMW, ok) ==
  LET row == [device_ip |-> deviceIP, device_mac |-> deviceMAC,
              power_mw |-> powerMW]
  IN IF ~ok THEN d
     ELSE [d EXCEPT !.readings = Append(@, row)]

\* Store.InsertHourly
insertHourly(d, date, hour, deviceIP, energyWh, ok) ==
  LET row == [date |-> date, hour |-> hour, device_ip |-> deviceIP,
              energy_wh |-> energyWh]
  IN IF ~ok THEN d
     ELSE [d EXCEPT !.hourly = upsert(@, row, hourlyKey)]

\* Store.InsertDaily
insertDaily(d, date, deviceIP, energyWh, runtimeMin, ok) ==
  LET row == [date |-> date, device_ip |-> deviceIP, energy_wh |-> energyWh,
              runtime_min |-> runtimeMin]
  IN IF ~ok THEN d
     ELSE [d EXCEPT !.daily = upsert(@, row, dailyKey)]

\* Store.InsertMonthly
insertMonthly(d, year, month, deviceIP, energyWh, ok) ==
  LET row == [year |-> year, month |-> month, device_ip |-> deviceIP,
              energy_wh |-> energyWh]
  IN IF ~ok THEN d
     ELSE [d EXCEPT !.monthly = upsert(@, row, monthlyKey)]

\* the error Exec returns
ExecErr(ok) == IF ok THEN "" ELSE "exec failed"

\* the Insert calls as steps of a program that uses the store; op is the
\* call just made: its table, its arguments and the error it returned
InsertHourly(date, hour, deviceIP, energyWh, ok) ==
  /\ db' = [insertHourly(db, date, hour, deviceIP, energyWh, ok) EXCEPT
              !.op = [table |-> "hourly",
                      row |-> [date |-> date, hour |-> hour,
                               device_ip |-> deviceIP, energy_wh |-> energyWh],
                      err |-> ExecErr(ok)]]
  /\ UNCHANGED <<klapVars, disc, prog, tq, dm, fx>>

InsertDaily(date, deviceIP, energyWh, runtimeMin, ok) ==
  /\ db' = [insertDaily(db, date, deviceIP, energyWh, runtimeMin, ok) EXCEPT
              !.op = [table |-> "daily",
                      row |-> [date |-> date, device_ip |-> deviceIP,
                               energy_wh |-> energyWh,
                               runtime_min |-> runtimeMin],
                      err |-> ExecErr(ok)]]
  /\ UNCHANGED <<klapVars, disc, prog, tq, dm, fx>>

InsertMonthly(year, month, deviceIP, energyWh, ok) ==
  /\ db' = [insertMonthly(db, year, month, deviceIP, energyWh, ok) EXCEPT
              !.op = [table |-> "monthly",
                      row |-> [year |-> year, month |-> month,
                               device_ip |-> deviceIP, energy_wh |-> energyWh],
                      err |-> ExecErr(ok)]]
  /\ UNCHANGED <<klapVars, disc, prog, tq, dm, fx>>

\* ------------------------------------------------------------ runDaemon
\* the device lists the daemon monitors and the times of its poll cycles
DeviceLists == {<<"192.0.2.10">>, <<"192.0.2.10", "192.0.2.11">>}

Nows == {[date |-> "2024-12-31", year |-> 2024]}

\* the data arrays of a get_energy_data reply: one entry per hour or month
\* with zero and positive values, and one entry more than that
HourlyData ==
  {[h \in 1..24 |-> IF h \in {1, 24} THEN 10 + h ELSE 0],
   [h \in 1..25 |-> IF h = 25 THEN 7 ELSE 0]}

MonthlyData ==
  {[m \in 1..12 |-> IF m \in {1, 12} THEN 100 + m ELSE 0],
   [m \in 1..13 |-> IF m = 13 THEN 9 ELSE 0]}

\* what a command returns to pollDevices: a value, an error, or the panic of
\* decrypt, which ends the process
Failures == {[kind |-> k, value |-> NoValue] : k \in {"err", "panic"}}

Returned(value) == [kind |-> "ok", value |-> value]

Outcomes(q, ip) ==
  Failures \cup
    CASE q = "info" -> {Returned([NoValue EXCEPT !.MAC = MacOf(ip)])}
      [] q = "power" -> {Returned([NoValue EXCEPT !.CurrentPower = 1500])}
      [] q = "hourly" -> {Returned([NoValue EXCEPT !.Data = d]) : d \in HourlyData}
      [] q = "usage" ->
           {Returned([NoValue EXCEPT !.TodayEnergy = 40, !.TodayRuntime = 90])}
      [] OTHER -> {Returned([NoValue EXCEPT !.Data = d]) : d \in MonthlyData}

\* the sets of loop indexes at which the Insert of a loop fails
FailingSets == {{}, {1}}

\* pollDevices is entered: now, dateStr and the first device
startPoll(d, now) ==
  [d EXCEPT !.pc = "poll", !.now = now, !.i = 1, !.q = "connect", !.mac = "",
            !.polls = @ + 1]

\* the loop over deviceIPs moves on; after the last device pollDevices
\* returns to runDaemon, which starts the ticker after the initial poll and
\* waits in select
nextDevice(d) ==
  IF d.i < Len(d.deviceIPs)
    THEN [d EXCEPT !.i = @ + 1, !.q = "connect", !.mac = ""]
    ELSE [d EXCEPT !.pc = "select", !.i = 0, !.q = "", !.mac = "",
                   !.ticker = TRUE]

\* a query has returned: the next query of the device, or the end of the
\* process on a panic
afterQuery(d, q, out, next) ==
  IF out.kind = "panic"
    THEN [d EXCEPT !.pc = "crashed", !.last = [q |-> q, kind |-> out.kind]]
    ELSE IF next = "" THEN nextDevice([d EXCEPT !.last = [q |-> q, kind |-> out.kind]])
    ELSE [d EXCEPT !.q = next, !.last = [q |-> q, kind |-> out.kind]]

\* runDaemon reaches the initial poll with its device list
DaemonStart(deviceIPs, now) ==
  /\ dm.pc = "idle"
  /\ dm' = startPoll([NoDaemon EXCEPT !.deviceIPs = deviceIPs], now)
  /\ UNCHANGED <<klapVars, disc, prog, tq, db, fx>>

\* client.Connect(deviceIP) returns
PollConnect(ok) ==
  /\ dm.pc = "poll" /\ dm.q = "connect"
  /\ dm' = IF ok THEN [dm EXCEPT !.q = "info", !.last = [q |-> "connect", kind |-> "ok"]]
           ELSE nextDevice([dm EXCEPT !.last = [q |-> "connect", kind |-> "err"]])
  /\ UNCHANGED <<klapVars, disc, prog, tq, db, fx>>

\* device.GetDeviceInfo() returns
PollInfo(out) ==
  /\ dm.pc = "poll" /\ dm.q = "info"
  /\ dm' = afterQuery([dm EXCEPT !.mac = IF out.kind = "ok" THEN out.value.MAC ELSE ""],
                      "info", out, "power")
  /\ UNCHANGED <<klapVars, disc, prog, tq, db, fx>>

\* device.GetCurrentPower() returns and the reading is stored
PollPower(out, ok) ==
  /\ dm.pc = "poll" /\ dm.q = "power"
  /\ dm' = afterQuery(dm, "power", out, "hourly")
  /\ db' = IF out.kind = "ok"
             THEN insertReading(db, dm.deviceIPs[dm.i], dm.mac,
                                out.value.CurrentPower, ok)
           ELSE db
  /\ UNCHANGED <<klapVars, disc, prog, tq, fx>>

\* for hour, wh := range hourly.Data: the first n entries, hour counted from 0
RECURSIVE storeHourly(_, _, _, _, _, _)
storeHourly(d, dateStr, deviceIP, data, failing, n) ==
  IF n = 0 THEN d
  ELSE IF data[n] > 0
    THEN insertHourly(storeHourly(d, dateStr, deviceIP, data, failing, n - 1),
                      dateStr, n - 1, deviceIP, data[n], n \notin failing)
  ELSE storeHourly(d, dateStr, deviceIP, data, failing, n - 1)

\* device.GetEnergyData(EnergyDataHourly, now) returns and its entries are
\* stored
PollHourly(out, failing) ==
  /\ dm.pc = "poll" /\ dm.q = "hourly"
  /\ dm' = afterQuery(dm, "hourly", out, "usage")
  /\ db' = IF out.kind = "ok"
             THEN storeHourly(db, dm.now.date, dm.deviceIPs[dm.i],
                              out.value.Data, failing, Len(out.value.Data))
           ELSE db
  /\ UNCHANGED <<klapVars, disc, prog, tq, fx>>

\* device.GetEnergyUsage() returns and the day is stored
PollUsage(out, ok) ==
  /\ dm.pc = "poll" /\ dm.q = "usage"
  /\ dm' = afterQuery(dm, "usage", out, "monthly")
  /\ db' = IF out.kind = "ok"
             THEN insertDaily(db, dm.now.date, dm.deviceIPs[dm.i],
                              out.value.TodayEnergy, out.value.TodayRuntime, ok)
           ELSE db
  /\ UNCHANGED <<klapVars, disc, prog, tq, fx>>

\* for month, wh := range monthly.Data: the first n entries, stored as month+1
RECURSIVE storeMonthly(_, _, _, _, _, _)
storeMonthly(d, year, deviceIP, data, failing, n) ==
  IF n = 0 THEN d
  ELSE IF data[n] > 0
    THEN insertMonthly(storeMonthly(d, year, deviceIP, data, failing, n - 1),
                       year, (n - 1) + 1, deviceIP, data[n], n \notin failing)
  ELSE storeMonthly(d, year, deviceIP, data, failing, n - 1)

\* device.GetEnergyData(EnergyDataMonthly, now) returns, its entries are
\* stored and the loop moves to the next device
PollMonthly(out, failing) ==
  /\ dm.pc = "poll" /\ dm.q = "monthly"
  /\ dm' = afterQuery(dm, "monthly", out, "")
  /\ db' = IF out.kind = "ok"
             THEN storeMonthly(db, dm.now.year, dm.deviceIPs[dm.i],
                               out.value.Data, failing, Len(out.value.Data))
           ELSE db
  /\ UNCHANGED <<klapVars, disc, prog, tq, fx>>

\* the ticker sends on ticker.C, a channel holding one value: a tick that
\* finds it full is dropped
TickerFires ==
  /\ dm.pc \in {"poll", "select"}
  /\ dm.ticker /\ ~dm.tick
  /\ dm.polls < MaxPolls
  /\ dm' = [dm EXCEPT !.tick = TRUE]
  /\ UNCHANGED <<klapVars, disc, prog, tq, db, fx>>

\* SIGINT or SIGTERM is delivered: signal.Notify puts it in sigChan, a
\* channel holding one value
Signal ==
  /\ dm.pc \in {"poll", "select"}
  /\ ~dm.sig
  /\ dm' = [dm EXCEPT !.sig = TRUE]
  /\ UNCHANGED <<klapVars, disc, prog, tq, db, fx>>

\* select takes case <-ticker.C: pollDevices is called
SelectTick(now) ==
  /\ dm.pc = "select" /\ dm.tick
  /\ dm' = startPoll([dm EXCEPT !.tick = FALSE], now)
  /\ UNCHANGED <<klapVars, disc, prog, tq, db, fx>>

\* db.GetStats(): the number of rows of each table
GetStats(d) == <<Len(d.readings), Len(d.hourly), Len(d.daily), Len(d.monthly)>>

\* select takes case sig := <-sigChan: printDBStats(db) and return
SelectSignal ==
  /\ dm.pc = "select" /\ dm.sig
  /\ dm' = [dm EXCEPT !.pc = "returned", !.sig = FALSE, !.stats = GetStats(db)]
  /\ UNCHANGED <<klapVars, disc, prog, tq, db, fx>>

\* ------------------------------------------------------------ klap.go calls
\* sessions after handshake1, before deriveKeys: the seeds, the auth hash,
\* the host and whatever seq held before
SeededSessions ==
  {[NoSession EXCEPT !.localSeed = l, !.remoteSeed = r, !.authHash = a,
                     !.host = h, !.seq = q] :
     l \in LocalSeeds, r \in RemoteSeeds,
     a \in {generateAuthHash(Username, Password), OtherAuthHash},
     h \in Responders, q \in {0, 5}}

\* READY sessions: keys derived, seq anywhere in the int32 range
ReadySessions ==
  {[deriveKeys(s) EXCEPT !.seq = q] :
     s \in {t \in SeededSessions : t.host = "192.0.2.10" /\ t.seq = 0
                                    /\ t.localSeed = "L1" /\ t.remoteSeed # "Rneg"},
     q \in {0, -2, MaxInt32 - 1, MaxInt32, MinInt32}}

\* plaintexts of every length around one and two blocks, some ending in
\* bytes that look like padding
Plaintexts ==
  {Repeat(65, n) : n \in {0, 1, 15, 16, 17, 31, 32}}
    \cup {ReplyOK, <<1>>, <<65, 2, 2>>, Repeat(16, 16)}

\* byte strings: n bytes a followed by k bytes b
ByteStrings ==
  UNION {{Repeat(a, n) \o Repeat(b, k) :
            a \in {0, 65}, b \in {0, 1, 2, 16, 17, 32, 33, 255},
            k \in 0..(MaxLen - n)} : n \in 0..MaxLen}

\* the seq values a payload may be decrypted with: the seq of the encryption
\* and others near and far
OtherSeqs(seq) == {seq, Inc32(seq), 0, -1, MaxInt32, MinInt32}

\* s.encrypt(plaintext), then s.decrypt(payload, seq) on the same session
EncryptDecrypt(s, plaintext, seq) ==
  /\ fx.fn = ""
  /\ \E e \in {encrypt(s, plaintext)} :
       fx' = [fn |-> "encrypt, decrypt",
              in |-> [s |-> s, plaintext |-> plaintext, seq |-> seq],
              out |-> [seq |-> e.seq, payload |-> e.payload,
                       d |-> decrypt([s EXCEPT !.seq = e.newSeq], e.payload,
                                     seq)]]
  /\ UNCHANGED <<klapVars, disc, prog, tq, dm, db>>

\* s.deriveKeys() on two sessions
DeriveKeys(s1, s2) ==
  /\ fx.fn = ""
  /\ fx' = [fn |-> "deriveKeys", in |-> <<s1, s2>>,
            out |-> <<deriveKeys(s1), deriveKeys(s2)>>]
  /\ UNCHANGED <<klapVars, disc, prog, tq, dm, db>>

\* pkcs7Pad(x, aes.BlockSize), then pkcs7Unpad of the result
PadUnpad(x) ==
  /\ fx.fn = ""
  /\ \E padded \in {pkcs7Pad(x, BlockSize)} :
       fx' = [fn |-> "pkcs7Pad, pkcs7Unpad", in |-> x,
              out |-> [padded |-> padded, unpadded |-> pkcs7Unpad(padded)]]
  /\ UNCHANGED <<klapVars, disc, prog, tq, dm, db>>

\* pkcs7Unpad(x)
Unpad(x) ==
  /\ fx.fn = ""
  /\ fx' = [fn |-> "pkcs7Unpad", in |-> x, out |-> pkcs7Unpad(x)]
  /\ UNCHANGED <<klapVars, disc, prog, tq, dm, db>>

\* s.decrypt(payload, seq)
Decrypt(s, payload, seq) ==
  /\ fx.fn = ""
  /\ fx' = [fn |-> "decrypt", in |-> [s |-> s, payload |-> payload, seq |-> seq],
            out |-> decrypt(s, payload, seq)]
  /\ UNCHANGED <<klapVars, disc, prog, tq, dm, db>>

\* ------------------------------------------------------------ specification
\* One P110 used by concurrent callers, against every kind of reply.
Next ==
  \/ \E ip \in Hosts, l \in LocalSeeds : Connect(1, ip, l)
  \/ ConnectFail(1)
  \/ \E s \in Sessions : Handshake1Post(s)
  \/ \E s \in Sessions : \E r \in Hs1Replies(s) : Handshake1Reply(s, r)
  \/ \E s \in Sessions : Handshake2Post(s)
  \/ \E s \in Sessions : \E r \in Hs2Replies : Handshake2Reply(s, r)
  \/ \E c \in Callers, p \in Sessions, cmd \in Commands : Call(c, p, cmd)
  \/ \E c \in Callers : Lock(c)
  \/ \E c \in Callers : Encrypt(c)
  \/ \E c \in Callers, sent \in BOOLEAN : PostRequest(c, sent)
  \/ \E c \in Callers :
       /\ call[c].pc = "posted"
       /\ \E r \in RequestReplies(session[call[c].p], call[c].seq) : Reply(c, r)
  \/ \E c \in Callers : Return(c)

Spec == Init /\ [][Next]_vars

\* Several sessions of one Client side by side, against the replies of a
\* device that follows the protocol or refuses.
Hs1RepliesOfDevice(s) ==
  {r \in Hs1Replies(s) :
     /\ ~r.io /\ ~r.readErr
     /\ r.body.len \in {0, 48}
     /\ r.body.seed \in {"", "Rpos"}
     /\ r.body.hash # sha256Hash(<<"Rpos", session[s].localSeed, session[s].authHash>>)}

Hs2RepliesOfDevice == {r \in Hs2Replies : ~r.io /\ r.status \in {StatusOK, 403}}

RequestRepliesOfDevice(s, seq) ==
  {r \in RequestReplies(s, seq) :
     /\ ~r.io /\ ~r.readErr
     /\ r.status \in {StatusOK, 403}
     /\ r.body.len >= 32
     /\ decrypt(s, r.body, seq).pt = ReplyOK}

NextSessions ==
  \/ \E s \in Sessions, ip \in Hosts, l \in LocalSeeds : Connect(s, ip, l)
  \/ \E s \in Sessions : Handshake1Post(s)
  \/ \E s \in Sessions : \E r \in Hs1RepliesOfDevice(s) : Handshake1Reply(s, r)
  \/ \E s \in Sessions : Handshake2Post(s)
  \/ \E s \in Sessions : \E r \in Hs2RepliesOfDevice : Handshake2Reply(s, r)
  \/ \E c \in Callers, p \in Sessions : Call(c, p, "GetDeviceInfo")
  \/ \E c \in Callers : Lock(c)
  \/ \E c \in Callers : Encrypt(c)
  \/ \E c \in Callers : PostRequest(c, TRUE)
  \/ \E c \in Callers :
       /\ call[c].pc = "posted"
       /\ \E r \in RequestRepliesOfDevice(session[call[c].p], call[c].seq) :
            Reply(c, r)
  \/ \E c \in Callers : Return(c)

SpecSessions == Init /\ [][NextSessions]_vars

\* The program: the devices are chosen by flag or by discovery, then each is
\* connected to and queried in turn.
Modes == {"ip", "all", "first", "daemon ip", "daemon all", "daemon first"}

NextMain ==
  \/ \E mode \in Modes, ip \in Hosts : MainStart(mode, ip)
  \/ \E t \in Timeouts, su \in Setups :
       prog.pc = "discover" /\ DiscoverStart(FnOf(prog.mode), t, su)
  \/ \E setOK \in BOOLEAN : LoopHead(setOK)
  \/ \E pkt \in Packets : Receive(pkt)
  \/ ReadError
  \/ ReadTimeout
  \/ Tick
  \/ Cancel
  \/ MainDevices
  \/ \E s \in Sessions, l \in LocalSeeds :
       /\ prog.pc = "connect"
       /\ s <= Len(prog.deviceIPs)
       /\ IF s = 1 THEN TRUE ELSE conn[s - 1].st \in {"connected", "failed"}
       /\ call[1].pc = "idle"
       /\ Connect(s, prog.deviceIPs[s], l)
  \/ \E s \in Sessions : Handshake1Post(s)
  \/ \E s \in Sessions : \E r \in Hs1RepliesOfDevice(s) : Handshake1Reply(s, r)
  \/ \E s \in Sessions : Handshake2Post(s)
  \/ \E s \in Sessions : \E r \in Hs2RepliesOfDevice : Handshake2Reply(s, r)
  \/ \E p \in Sessions :
       /\ \A t \in Sessions : t > p => conn[t].st = "idle"
       /\ Call(1, p, "GetDeviceInfo")
  \/ Lock(1)
  \/ Encrypt(1)
  \/ PostRequest(1, TRUE)
  \/ /\ call[1].pc = "posted"
     /\ \E r \in RequestRepliesOfDevice(session[call[1].p], call[1].seq) :
          Reply(1, r)
  \/ Return(1)

SpecMain == Init /\ [][NextMain]_vars

\* GetEnergyData called with each interval at reference times all over 2024,
\* in each location.
RefTimes ==
  UNION {{[unix |-> At(2024, m, d, sec), loc |-> loc] :
            d \in {1, 15, 27, DaysIn(2024, m)},
            sec \in {0, 45000, 81000, 86399},
            loc \in Locations} : m \in 1..12}

NextTime == \E interval \in Intervals, t \in RefTimes : GetEnergyData(interval, t)

SpecTime == Init /\ [][NextTime]_vars

\* One discovery call, of either kind, against any stream of datagrams.
NextDiscover ==
  \/ \E fn \in {"Discover", "DiscoverFirst"}, t \in Timeouts, su \in Setups :
       DiscoverStart(fn, t, su)
  \/ \E setOK \in BOOLEAN : LoopHead(setOK)
  \/ \E pkt \in Packets : Receive(pkt)
  \/ ReadError
  \/ ReadTimeout
  \/ Tick
  \/ Cancel

SpecDiscover == Init /\ [][NextDiscover]_vars

\* The clock advances, the loop runs and a read that has reached its deadline
\* returns.
SpecDiscoverFair ==
  /\ SpecDiscover
  /\ WF_vars(Tick)
  /\ WF_vars(\E setOK \in BOOLEAN : LoopHead(setOK))
  /\ WF_vars(ReadTimeout)

\* One pollDevices call, against every outcome of each query and of each
\* Insert.
NextPoll ==
  \/ \E ips \in DeviceLists, now \in Nows : DaemonStart(ips, now)
  \/ \E ok \in BOOLEAN : PollConnect(ok)
  \/ /\ dm.pc = "poll" /\ dm.q = "info"
     /\ \E out \in Outcomes("info", dm.deviceIPs[dm.i]) : PollInfo(out)
  \/ \E out \in Outcomes("power", ""), ok \in BOOLEAN : PollPower(out, ok)
  \/ \E out \in Outcomes("hourly", ""), failing \in FailingSets :
       PollHourly(out, failing)
  \/ \E out \in Outcomes("usage", ""), ok \in BOOLEAN : PollUsage(out, ok)
  \/ \E out \in Outcomes("monthly", ""), failing \in FailingSets :
       PollMonthly(out, failing)

SpecPoll == Init /\ [][NextPoll]_vars

\* The daemon with one device from its initial poll on: the poll cycles, the
\* ticker and the signal, with a store that accepts every Insert and data
\* arrays of the expected length.
OutcomesOfLength(q, ip) ==
  {out \in Outcomes(q, ip) : Len(out.value.Data) \in {0, 12, 24}}

NextDaemon ==
  \/ \E ips \in {l \in DeviceLists : Len(l) = 1}, now \in Nows :
       DaemonStart(ips, now)
  \/ \E ok \in BOOLEAN : PollConnect(ok)
  \/ /\ dm.pc = "poll" /\ dm.q = "info"
     /\ \E out \in Outcomes("info", dm.deviceIPs[dm.i]) : PollInfo(out)
  \/ \E out \in Outcomes("power", "") : PollPower(out, TRUE)
  \/ \E out \in OutcomesOfLength("hourly", "") : PollHourly(out, {})
  \/ \E out \in Outcomes("usage", "") : PollUsage(out, TRUE)
  \/ \E out \in OutcomesOfLength("monthly", "") : PollMonthly(out, {})
  \/ TickerFires
  \/ Signal
  \/ \E now \in Nows : SelectTick(now)
  \/ SelectSignal

SpecDaemon == Init /\ [][NextDaemon]_vars

\* Every call of pollDevices returns (the HTTP client gives up after 10
\* seconds) and select, which picks at random among the cases that are ready,
\* takes the signal sooner or later.
PollStep ==
  \/ \E ok \in BOOLEAN : PollConnect(ok)
  \/ /\ dm.pc = "poll" /\ dm.q = "info"
     /\ \E out \in Outcomes("info", dm.deviceIPs[dm.i]) : PollInfo(out)
  \/ \E out \in Outcomes("power", "") : PollPower(out, TRUE)
  \/ \E out \in OutcomesOfLength("hourly", "") : PollHourly(out, {})
  \/ \E out \in Outcomes("usage", "") : PollUsage(out, TRUE)
  \/ \E out \in OutcomesOfLength("monthly", "") : PollMonthly(out, {})

SpecDaemonFair ==
  /\ SpecDaemon
  /\ WF_vars(PollStep)
  /\ SF_vars(SelectSignal)

\* Single calls of the functions of klap.go on every argument of the input
\* sets.
NextFunctions ==
  \/ /\ fx.fn = ""
     /\ \E s \in ReadySessions, p \in Plaintexts :
          \E q \in OtherSeqs(Inc32(s.seq)) : EncryptDecrypt(s, p, q)
  \/ /\ fx.fn = ""
     /\ \E s1 \in SeededSessions, s2 \in SeededSessions : DeriveKeys(s1, s2)
  \/ /\ fx.fn = ""
     /\ \E x \in ByteStrings : PadUnpad(x)
  \/ /\ fx.fn = ""
     /\ \E x \in ByteStrings : Unpad(x)
  \/ /\ fx.fn = ""
     /\ \E s \in ReadySessions :
          \E r \in RequestReplies(s, Inc32(s.seq)) :
            Decrypt(s, r.body, Inc32(s.seq))

SpecFunctions == Init /\ [][NextFunctions]_vars

\* Any sequence of InsertHourly, InsertDaily and InsertMonthly calls on one
\* store, each succeeding or failing, over two keys of each table.
StoreDates == {"2024-12-30", "2024-12-31"}

StoreEnergy == {5, 7}

NextStore ==
  \/ \E date \in {"2024-12-31"}, hour \in {0, 23}, deviceIP \in Hosts,
        energyWh \in StoreEnergy, ok \in BOOLEAN :
        InsertHourly(date, hour, deviceIP, energyWh, ok)
  \/ \E date \in StoreDates, deviceIP \in Hosts, energyWh \in StoreEnergy,
        runtimeMin \in {60}, ok \in BOOLEAN :
        InsertDaily(date, deviceIP, energyWh, runtimeMin, ok)
  \/ \E year \in {2024}, month \in {12}, deviceIP \in Responders,
        energyWh \in StoreEnergy, ok \in BOOLEAN :
        InsertMonthly(year, month, deviceIP, energyWh, ok)

SpecStore == Init /\ [][NextStore]_vars

\* One P110 of a real device on which callers call GetEnergyData with known
\* and unknown intervals.
EnergyTimes ==
  {[unix |-> At(2024, 8, 31, 81000), loc |-> "Asia/Kolkata"]}

NextEnergy ==
  \/ \E ip \in Hosts, l \in LocalSeeds : Connect(1, ip, l)
  \/ Handshake1Post(1)
  \/ \E r \in Hs1RepliesOfDevice(1) : Handshake1Reply(1, r)
  \/ Handshake2Post(1)
  \/ \E r \in Hs2RepliesOfDevice : Handshake2Reply(1, r)
  \/ \E c \in Callers, interval \in Intervals, t \in EnergyTimes :
       GetEnergyDataOn(c, 1, interval, t)
  \/ \E c \in Callers : Lock(c)
  \/ \E c \in Callers : Encrypt(c)
  \/ \E c \in Callers : PostRequest(c, TRUE)
  \/ \E c \in Callers :
       /\ call[c].pc = "posted"
       /\ \E r \in RequestRepliesOfDevice(session[call[c].p], call[c].seq) :
            Reply(c, r)
  \/ \E c \in Callers : Return(c)

SpecEnergy == Init /\ [][NextEnergy]_vars

\* ------------------------------------------------------------ properties
\* the requests among the POSTs of session s
RequestIndexes(s) == {i \in 1..Len(wire[s]) : wire[s][i].path = "/request"}

\* caller c is inside sendRequest, past p.mu.Lock() and before its return
InRequest(c) == call[c].pc \in {"encrypt", "post", "posted", "done", "panic"}

\* the successor of a signed 32-bit value
SuccInt32(x) == IF x = MaxInt32 THEN MinInt32 ELSE x + 1

\* C1: on every P110, under any interleaving of command calls, at most one
\* caller is between the acquisition of the session lock and its return, and
\* that caller is the holder of the lock: no seq increment and no /request
\* POST happens while another caller's request is in progress.
C1_OneRequestInFlight ==
  \A c1 \in Callers :
    InRequest(c1) =>
      /\ mu[call[c1].p] = c1
      /\ \A c2 \in Callers \ {c1} :
           call[c2].p = call[c1].p => ~InRequest(c2)

\* a caller waits for the lock while another caller's request is on the wire
C1_Witness ==
  \E c1, c2 \in Callers :
    /\ c1 # c2
    /\ call[c1].p = call[c2].p
    /\ call[c1].pc = "posted"
    /\ call[c2].pc = "lock"

\* C2: every /request POST carries one seq value q in its URL query, in the
\* last 4 bytes of the IV of its ciphertext and in its signature, and the
\* reply of that request is verified and decrypted with the same q.
C2_SeqConsistent ==
  /\ \A s \in Sessions : \A i \in RequestIndexes(s) :
       \E k \in 1..Len(assigned[s]) :
         LET q == assigned[s][k]
             w == wire[s][i]
         IN /\ w.query = FormatInt(q)
            /\ w.payload.ct.iv.tail = PutUint32(q)
            /\ w.payload.sig.seqBytes = PutUint32(q)
  /\ \A c \in Callers :
       call[c].wix # 0 =>
         LET w == wire[call[c].p][call[c].wix]
         IN /\ w.query = FormatInt(call[c].seq)
            /\ w.payload.ct.iv.tail = PutUint32(call[c].seq)
            /\ w.payload.sig.seqBytes = PutUint32(call[c].seq)
            /\ call[c].req.sigChecked => call[c].req.seq = call[c].seq

\* the second request of a session has been answered and decrypted while
\* another caller waits on the same session
C2_Witness ==
  \E c1, c2 \in Callers :
    /\ call[c1].pc = "done"
    /\ call[c1].req.kind = "ok"
    /\ call[c1].wix > 3
    /\ call[c2].pc = "lock"
    /\ call[c2].p = call[c1].p

\* C3 as stated: every request's seq is greater than that of every earlier
\* request of the session.
C3_StrictlyIncreasing ==
  \A s \in Sessions : \A i, j \in 1..Len(assigned[s]) :
    i < j => assigned[s][i] < assigned[s][j]

\* C3 amended: a request's seq is greater than that of every earlier request
\* unless the counter passed 2^31-1 in between, where it wraps to -2^31; no
\* value is used twice.
C3_IncreasingUntilWrap ==
  \A s \in Sessions : \A i, j \in 1..Len(assigned[s]) :
    i < j =>
      /\ assigned[s][i] # assigned[s][j]
      /\ \/ assigned[s][i] < assigned[s][j]
         \/ \E k \in i..(j - 1) :
              assigned[s][k] = MaxInt32 /\ assigned[s][k + 1] = MinInt32

\* a session whose counter went from 2^31-1 to -2^31
C3_Witness ==
  \E s \in Sessions : \E k \in 1..(Len(assigned[s]) - 1) :
    assigned[s][k] = MaxInt32 /\ assigned[s][k + 1] = MinInt32

\* the handshake1 reply of session s passes the checks of handshake1
Hs1Accepted(s) ==
  LET r == hsReply[s].hs1
  IN /\ r.got /\ ~r.io /\ ~r.readErr
     /\ r.status = 200
     /\ r.body.len = 48
     /\ r.body.hash =
          sha256Hash(<<session[s].localSeed, r.body.seed,
                       generateAuthHash(Username, Password)>>)

\* the handshake2 reply of session s is a 200
Hs2Accepted(s) ==
  LET r == hsReply[s].hs2 IN r.got /\ ~r.io /\ r.status = 200

KeysDerived(s) ==
  \/ session[s].key # NoPrefix
  \/ session[s].ivSeq # NoPrefix
  \/ session[s].sig # NoPrefix

\* C4: Connect has returned a P110 exactly when handshake1 and then handshake2
\* succeeded; the keys are derived only after the 200 of handshake2; a
\* /request POST is sent only after both handshake POSTs, on a session whose
\* handshake2 got 200; any other outcome of handshake2 makes Connect fail with
\* no key derived.
C4_UsableIffHandshake2 ==
  \A s \in Sessions :
    /\ conn[s].st = "connected" <=> Hs2Accepted(s)
    /\ Hs2Accepted(s) => Hs1Accepted(s)
    /\ KeysDerived(s) => Hs2Accepted(s)
    /\ \A i \in RequestIndexes(s) :
         /\ i > 2
         /\ wire[s][1].path = "/handshake1"
         /\ wire[s][2].path = "/handshake2"
         /\ Hs2Accepted(s)
    /\ (hsReply[s].hs2.got /\ ~Hs2Accepted(s)) =>
         /\ conn[s].st = "failed"
         /\ ~KeysDerived(s)
         /\ RequestIndexes(s) = {}
    /\ \A c \in Callers : call[c].p = s => conn[s].st = "connected"

\* a connected session that has sent a request
C4_Witness ==
  \E s \in Sessions :
    /\ conn[s].st = "connected"
    /\ KeysDerived(s)
    /\ RequestIndexes(s) # {}

\* C5: handshake1 succeeds only on a reply with status 200, a body of 48 bytes
\* and bytes 16..48 equal to SHA256(local_seed || remote_seed || auth_hash);
\* on a hash mismatch Connect fails with the server hash error and no
\* handshake2 POST is sent on the session.
C5_Handshake1Checks ==
  \A s \in Sessions :
    LET r == hsReply[s].hs1
        passed == \/ conn[s].st \in {"hs2", "hs2Sent", "connected"}
                  \/ hsReply[s].hs2.got
                  \/ \E i \in 1..Len(wire[s]) : wire[s][i].path = "/handshake2"
    IN /\ passed => Hs1Accepted(s) /\ session[s].remoteSeed = r.body.seed
       /\ (r.got /\ ~r.io /\ ~r.readErr /\ r.status = 200 /\ r.body.len = 48
             /\ ~Hs1Accepted(s)) =>
            /\ conn[s].st = "failed"
            /\ conn[s].err = "server hash verification failed"
            /\ ~passed

\* a handshake1 that failed on the server hash
C5_Witness ==
  \E s \in Sessions :
    /\ hsReply[s].hs1.status = 200
    /\ hsReply[s].hs1.body.len = 48
    /\ ~Hs1Accepted(s)
    /\ conn[s].err = "server hash verification failed"

\* caller c has the reply of its request, read in full with status 200
HasBody(c) ==
  /\ call[c].pc \in {"done", "panic"}
  /\ ~call[c].reply.io
  /\ ~call[c].reply.readErr
  /\ call[c].reply.status = 200

\* the first 32 bytes of the reply of c are the signature of the rest under
\* the session's sig key and the seq of c's request
SignatureMatches(c) ==
  LET b == call[c].reply.body
      w == wire[call[c].p][call[c].wix]
  IN /\ b.len >= 32
     /\ \E q \in {call[c].seq} :
          /\ w.query = FormatInt(q)
          /\ b.sig = [alg |-> "sha256", key |-> session[call[c].p].sig,
                      seqBytes |-> PutUint32(q), ct |-> b.ct]

\* C6: request returns a plaintext only for a reply whose first 32 bytes are
\* SHA256(sig_key || int32_be(s) || rest) for the seq s of that request; a
\* reply of 32 bytes or more with any other signature or an altered ciphertext
\* is rejected with the signature error, and AES decryption is reached only
\* after the signature matched.
C6_SignatureGuardsPlaintext ==
  \A c \in Callers :
    call[c].pc \in {"done", "panic"} =>
      /\ call[c].req.kind = "ok" => HasBody(c) /\ SignatureMatches(c)
      /\ call[c].req.aes => HasBody(c) /\ SignatureMatches(c)
      /\ (HasBody(c) /\ call[c].reply.body.len >= 32 /\ ~SignatureMatches(c)) =>
           /\ call[c].req.kind = "err"
           /\ call[c].req.err = "signature verification failed"
           /\ ~call[c].req.aes

\* a reply whose ciphertext was altered after signing has been rejected
C6_Witness ==
  \E c \in Callers :
    /\ HasBody(c)
    /\ call[c].reply.body.ct.flip = 1
    /\ call[c].req.err = "signature verification failed"

\* the failure kinds of the error taxonomy
Malformed == {"payload too short", "failed to unpad"}
TransportFailed == {"request returned status"}
SignatureInvalid == {"signature verification failed"}

\* the unpadding of the decrypted reply of c succeeds
PaddingValid(c) ==
  LET b == call[c].reply.body
      s == session[call[c].p]
      pt == CBCDecrypt(s.key, [seed |-> s.ivSeq, tail |-> PutUint32(call[c].seq)],
                       b.ct)
  IN /\ Len(pt) > 0
     /\ pt[Len(pt)] \in 1..Len(pt)
     /\ \A i \in 0..(pt[Len(pt)] - 1) : pt[Len(pt) - i] = pt[Len(pt)]

\* C7: for a /request reply the failure is decided in this order: a status
\* other than 200 gives the transport failure with that status, and the body
\* is neither verified nor decrypted; else a body under 32 bytes gives the
\* malformed failure; else a signature mismatch gives the signature failure;
\* else a padding failure after decryption gives the malformed failure; a
\* plaintext is returned only when none of these occurred.
C7_FailureOrder ==
  \A c \in Callers :
    (call[c].pc \in {"done", "panic"} /\ ~call[c].reply.io) =>
      LET r == call[c].reply
          q == call[c].req
      IN /\ r.status # 200 =>
              /\ q.kind = "err" /\ q.err \in TransportFailed
              /\ q.status = r.status
              /\ ~q.sigChecked /\ ~q.aes
         /\ (HasBody(c) /\ r.body.len < 32) =>
              q.kind = "err" /\ q.err \in Malformed /\ ~q.sigChecked
         /\ (HasBody(c) /\ r.body.len >= 32 /\ ~SignatureMatches(c)) =>
              q.kind = "err" /\ q.err \in SignatureInvalid
         /\ (HasBody(c) /\ SignatureMatches(c) /\ q.kind # "panic"
               /\ ~PaddingValid(c)) =>
              q.kind = "err" /\ q.err \in Malformed /\ q.aes
         /\ q.kind = "ok" =>
              /\ HasBody(c) /\ r.body.len >= 32 /\ SignatureMatches(c)
              /\ PaddingValid(c)

\* a 403 reply with a validly signed body has given the transport failure
C7_Witness ==
  \E c \in Callers :
    /\ call[c].pc = "done"
    /\ call[c].reply.status = 403
    /\ SignatureMatches(c)
    /\ call[c].req.err \in TransportFailed
    /\ call[c].req.status = 403

\* C8 as stated: once a request on a session has failed, no further /request
\* POST is sent on that session.
C8_NoRequestAfterFailure ==
  [][\A s \in Sessions : failed[s] => wire'[s] = wire[s]]_vars

\* the initial seq of session s: the signed big-endian reading of bytes
\* 28..32 of SHA256("iv" || local_seed || remote_seed || auth_hash)
Seq0(s) ==
  Int32BE(DigestTail([alg |-> "sha256",
                      parts |-> <<"iv", session[s].localSeed,
                                  session[s].remoteSeed, session[s].authHash>>]))

\* C9: whatever the outcome of a request, the session lock is free once the
\* call has returned, and the requests of a session take consecutive seq
\* values (int32 successor), the first one the successor of seq0.
C9_LockReleasedSeqAdvances ==
  /\ \A c \in Callers :
       call[c].pc \in {"idle", "lock"} => \A s \in Sessions : mu[s] # c
  /\ \A s \in Sessions :
       (\A c \in Callers : call[c].p = s => ~InRequest(c)) => mu[s] = 0
  /\ \A s \in Sessions :
       /\ Len(assigned[s]) > 0 => assigned[s][1] = SuccInt32(Seq0(s))
       /\ \A k \in 1..(Len(assigned[s]) - 1) :
            assigned[s][k + 1] = SuccInt32(assigned[s][k])
  /\ \A c \in Callers :
       call[c].pc \in {"post", "posted", "done"} =>
         /\ call[c].seq = assigned[call[c].p][Len(assigned[call[c].p])]
         /\ call[c].wix # 0 =>
              wire[call[c].p][call[c].wix].query = FormatInt(call[c].seq)

\* after a request of the session failed, the next request is on the wire
C9_Witness ==
  \E c \in Callers :
    /\ call[c].pc = "posted"
    /\ failed[call[c].p]
    /\ Len(assigned[call[c].p]) >= 2
    /\ mu[call[c].p] = c

\* C10: the cookie the device set in the handshake1 reply of a session is on
\* the handshake2 POST and on every /request POST of that session, and on no
\* POST of another session.
C10_CookieFollowsSession ==
  \A s \in Sessions :
    LET r == hsReply[s].hs1
    IN (r.got /\ ~r.io /\ r.cookie # NoCookie) =>
         /\ \A i \in 1..Len(wire[s]) :
              wire[s][i].path \in {"/handshake2", "/request"} =>
                wire[s][i].cookie = r.cookie
         /\ \A t \in Sessions \ {s} : \A i \in 1..Len(wire[t]) :
              wire[t][i].cookie # r.cookie

\* two sessions, each with its cookie, have both sent requests
C10_Witness ==
  \A s \in Sessions :
    /\ hsReply[s].hs1.cookie # NoCookie
    /\ RequestIndexes(s) # {}
    /\ \A i \in RequestIndexes(s) : wire[s][i].cookie = hsReply[s].hs1.cookie

\* the place, in the order of assignment on session s, of the seq carried by
\* the i-th POST of s
SeqRank(s, i) ==
  CHOOSE k \in 1..Len(assigned[s]) : FormatInt(assigned[s][k]) = wire[s][i].query

\* the requests of a session reach the wire in the order of their seq values
WireOrderIsSeqOrder ==
  \A s \in Sessions : \A i, j \in RequestIndexes(s) :
    i < j => SeqRank(s, i) < SeqRank(s, j)

\* C11 as stated: the callers of a session enter their requests in the order
\* in which they started waiting for the session lock (the lock goes to the
\* caller that has waited longest, which so gets the lower seq and is sent
\* first), and the requests of a session reach the wire in the order of their
\* seq values.
C11_StrictFIFO ==
  /\ []WireOrderIsSeqOrder
  /\ [][\A c \in Callers :
          (call[c].pc = "lock" /\ call'[c].pc = "encrypt") =>
            c = Head(waiting[call[c].p])]_vars

\* the decrypted reply of c is an envelope '{' error_code result '}'
HasEnvelope(c) ==
  /\ call[c].pc = "done"
  /\ call[c].req.kind = "ok"
  /\ Len(call[c].req.value) = 4
  /\ call[c].req.value[1] = 123
  /\ call[c].req.value[4] = 125

\* C12: for every command, a decrypted reply with error_code E # 0 makes the
\* command fail with an error carrying E and a nil result, also when the
\* reply holds a result object; with E = 0 the result object of the reply is
\* what sendRequest returns for decoding.
C12_ErrorCodeNoResult ==
  \A c \in Callers :
    HasEnvelope(c) =>
      LET E == call[c].req.value[2] - 48
          R == <<call[c].req.value[3]>>
          out == command(call[c].cmd, call[c].result)
      IN /\ E # 0 =>
              /\ call[c].result.kind = "err"
              /\ call[c].result.err = "device returned error code"
              /\ call[c].result.code = E
              /\ call[c].result.value = <<>>
              /\ out.value = "nil" /\ out.code = E /\ out.err # ""
         /\ E = 0 =>
              /\ call[c].result.kind = "ok"
              /\ call[c].result.value = R

\* GetDeviceInfo has met a reply with a non-zero error_code and a result
\* object in it, and has failed
C12_Witness ==
  \E c \in Callers :
    /\ HasEnvelope(c)
    /\ call[c].cmd = "GetDeviceInfo"
    /\ call[c].req.value[2] # 48
    /\ call[c].req.value[3] = 7
    /\ call[c].result.kind = "err"

\* the step is a pass of the Discover loop in which ReadFromUDP returned a
\* datagram, which is then disc'.pkt
ReceivedIn(fn) ==
  /\ disc.fn = fn
  /\ disc.pc = "read"
  /\ disc'.pc # "read"
  /\ disc'.rerr = ""

\* the datagram is a valid reply: longer than the 16-byte header, a JSON body,
\* error_code 0
ValidReply(pkt) == pkt.n > 16 /\ pkt.body.json /\ pkt.body.error_code = 0

\* the IP a reply is compared by: the reported ip, or the UDP source address
\* when the reported ip is empty
ReplyIP(pkt) == IF pkt.body.ip # "" THEN pkt.body.ip ELSE pkt.addr

\* C13: the list of Discover never holds two devices with the same IP; a
\* valid reply whose IP (the reported ip, or the UDP source address when that
\* is empty) is already listed changes nothing, and any other valid reply is
\* appended at the end, so each responder stands once, at the place of its
\* first reply.
C13_NoDuplicateIP ==
  /\ [](\A i, j \in 1..Len(disc.devices) :
          i # j => disc.devices[i].IP # disc.devices[j].IP)
  /\ [](disc.pc = "returned" /\ disc.fn = "Discover" /\ disc.err \notin SetupErrors
          => disc.result = disc.devices)
  /\ [][(ReceivedIn("Discover") /\ ValidReply(disc'.pkt)) =>
          IF \E i \in 1..Len(disc.devices) :
               disc.devices[i].IP = ReplyIP(disc'.pkt)
            THEN disc'.devices = disc.devices
            ELSE /\ Len(disc'.devices) = Len(disc.devices) + 1
                 /\ SubSeq(disc'.devices, 1, Len(disc.devices)) = disc.devices
                 /\ disc'.devices[Len(disc'.devices)].IP = ReplyIP(disc'.pkt)]_vars

\* two responders are listed and the last datagram read repeats the first of
\* them, with an empty reported ip
C13_Witness ==
  /\ disc.fn = "Discover"
  /\ Len(disc.devices) = 2
  /\ ValidReply(disc.pkt)
  /\ disc.pkt.body.ip = ""
  /\ disc.pkt.addr = disc.devices[1].IP

\* C14: a datagram of 16 bytes or fewer, with a body that is not JSON, or with
\* a non-zero error_code adds no device, leaves Discover and DiscoverFirst in
\* their loop with no error set, and the call never returns an error other
\* than those of the socket setup, the deadline and the cancellation.
C14_InvalidReplySkipped ==
  /\ [][\A fn \in {"Discover", "DiscoverFirst"} :
          (ReceivedIn(fn) /\ ~ValidReply(disc'.pkt)) =>
            /\ disc'.devices = disc.devices
            /\ disc'.seen = disc.seen
            /\ disc'.pc = "loop"
            /\ disc'.err = ""
            /\ disc'.result = <<>>]_vars
  /\ [](disc.pc = "returned" =>
          disc.err \in SetupErrors \cup {"", ctxErr, notFound})
  /\ [](disc.pc = "returned" /\ disc.err = notFound =>
          disc.fn = "DiscoverFirst" /\ disc.now >= disc.deadline)

\* the last datagram Discover read had a non-zero error_code; it was skipped
\* and the call returned the one device collected, with no error
C14_Witness ==
  /\ disc.fn = "Discover"
  /\ disc.pc = "returned"
  /\ disc.err = ""
  /\ Len(disc.result) = 1
  /\ disc.result[1].IP = "192.0.2.11"
  /\ disc.pkt.body.error_code # 0

\* C15: a Discover call that has entered its loop returns; once the deadline
\* has passed its next step is the return; a loop head reached with the
\* context cancelled returns the cancellation error; and a call that ran to
\* its deadline uncancelled with no valid reply returns an empty list and no
\* error.
C15_DiscoverTerminates ==
  /\ (disc.pc \in {"loop", "read"}) ~> (disc.pc = "returned")
  /\ [][(/\ disc.pc \in {"loop", "read"}
         /\ disc.now >= disc.deadline
         /\ disc'.pc # disc.pc) => disc'.pc = "returned"]_vars
  /\ [][(disc.pc = "loop" /\ disc.cancelled /\ disc'.pc # "loop") =>
          disc'.pc = "returned" /\ disc'.err = ctxErr]_vars
  /\ [](/\ disc.fn = "Discover"
        /\ disc.pc = "returned"
        /\ disc.seen = {}
        /\ ~disc.cancelled
        /\ disc.now >= disc.deadline
        => disc.result = <<>> /\ disc.err = "")

\* Discover has returned an empty list and no error when its last read ran
\* into the deadline, the datagram before that being an invalid one
C15_Witness ==
  /\ disc.fn = "Discover"
  /\ disc.pc = "returned"
  /\ disc.rerr = "i/o timeout"
  /\ disc.pkt.n = 17
  /\ disc.result = <<>>
  /\ disc.err = ""

\* C16 as stated: DiscoverFirst returns the device of the first valid reply
\* and reads no further; when it returns no device (the socket being set up),
\* the error is the cancellation error if the context was cancelled, and the
\* not-found error otherwise, the window having elapsed.
C16_FirstOrNotFoundOrCancelled ==
  /\ [](disc.fn = "DiscoverFirst" /\ disc.pc = "returned"
          /\ disc.err \notin SetupErrors =>
          IF disc.result # <<>>
            THEN /\ disc.err = ""
                 /\ ValidReply(disc.pkt)
                 /\ disc.result = <<[IP |-> ReplyIP(disc.pkt),
                                     MAC |-> disc.pkt.body.mac]>>
            ELSE /\ disc.cancelled => disc.err = ctxErr
                 /\ ~disc.cancelled =>
                      disc.err = notFound /\ disc.now >= disc.deadline)
  /\ [][(ReceivedIn("DiscoverFirst") /\ ValidReply(disc'.pkt)) =>
          disc'.pc = "returned"]_vars
  /\ [][disc.pc = "returned" => disc' = disc]_vars

\* C17 as stated: no POST (handshake1, handshake2, /request) is sent to a
\* device of the discovery result that advertised an encryption scheme other
\* than KLAP, in whatever mode the program runs.
C17_NonKlapNotSpokenTo ==
  \A s \in Sessions : \A i \in 1..Len(disc.result) :
    (/\ disc.pc = "returned"
     /\ disc.result[i].IP = session[s].host
     /\ SchemeOf(disc.result[i].IP) # "KLAP") => wire[s] = <<>>

\* the step is one of Connect or of a command on session t
StepOn(t) ==
  \/ conn'[t] # conn[t]
  \/ wire'[t] # wire[t]
  \/ \E c \in Callers :
       call'[c] # call[c] /\ (call[c].p = t \/ call'[c].p = t)

\* C18: every step of a handshake or a request on one session leaves the seq,
\* key, iv seed, sig key, seeds and cookie of every other session (and its
\* lock, its POSTs and its hosts) unchanged, also when both sessions are to
\* the same device; and the credentials of the Client stay those every
\* session was created with.
C18_SessionsIndependent ==
  /\ [][\A t \in Sessions :
          StepOn(t) =>
            \A s \in Sessions \ {t} :
              /\ session'[s] = session[s]
              /\ jar'[s] = jar[s]
              /\ mu'[s] = mu[s]
              /\ wire'[s] = wire[s]
              /\ assigned'[s] = assigned[s]]_vars
  /\ [][klapVars' # klapVars => \E t \in Sessions : StepOn(t)]_vars
  /\ [](\A s \in Sessions :
          conn[s].st # "idle" =>
            session[s].authHash = generateAuthHash(Username, Password))

\* two sessions to the same device, created with different local seeds, each
\* with a request of its own on the wire at the same time
C18_Witness ==
  \E c1, c2 \in Callers :
    /\ call[c1].p = 1 /\ call[c1].pc = "posted"
    /\ call[c2].p = 2 /\ call[c2].pc = "posted"
    /\ session[1].host = session[2].host
    /\ session[1].localSeed # session[2].localSeed
    /\ session[1].seq # session[2].seq

\* ---------------------------------------------------------------- windows
\* the civil dates, in the location of the reference time, of the reference
\* time and of the two timestamps sent
SentDates ==
  {[t |-> LocalDate(tq.t),
    start |-> LocalDate([unix |-> tq.StartTimestamp, loc |-> tq.t.loc]),
    end |-> LocalDate([unix |-> tq.EndTimestamp, loc |-> tq.t.loc])]}

\* midnight of the first day of month m of year y
FirstOf(y, m) == [year |-> y, month |-> m, day |-> 1, sec |-> 0]

\* the window sent is the one of its interval kind: for hourly the local
\* midnight of the day of T and 24 hours later, for monthly Jan 1 of the year
\* of T and Jan 1 of the next year, for daily the first day of the quarter of
\* T and the first day of the next quarter, with 60, 43200 and 1440 minutes
WindowOfKind ==
  \A c \in SentDates :
    CASE tq.interval = "hourly" ->
           /\ c.start = [c.t EXCEPT !.sec = 0]
           /\ tq.EndTimestamp = tq.StartTimestamp + 24 * 3600
           /\ tq.Interval = 60
      [] tq.interval = "monthly" ->
           /\ c.start = FirstOf(c.t.year, 1)
           /\ c.end = FirstOf(c.t.year + 1, 1)
           /\ tq.Interval = 43200
      [] OTHER ->
           /\ \E q \in {1, 4, 7, 10} :
                /\ q <= c.t.month /\ c.t.month <= q + 2
                /\ c.start = FirstOf(c.t.year, q)
                /\ c.end = IF q = 10 THEN FirstOf(c.t.year + 1, 1)
                           ELSE FirstOf(c.t.year, q + 3)
           /\ tq.Interval = 1440

\* C19 as stated: for each interval kind and every reference time T the pair
\* sent has start <= T < end and is the window of its kind (local midnight
\* and 24 hours later; Jan 1 to Jan 1; quarter start and 3 months later),
\* sent with 60, 43200 and 1440 minutes.
C19_WindowContainsT ==
  tq.pc = "sent" =>
    /\ tq.StartTimestamp <= tq.t.unix
    /\ tq.t.unix < tq.EndTimestamp
    /\ WindowOfKind

\* C19 amended: the pair sent is the window of its kind and start <= T; T is
\* before end for the monthly and daily kinds, and for the hourly kind unless
\* end, 24 hours after the local midnight, still falls on the local day of
\* T, a day made longer than 24 hours by clocks set back.
C19_WindowOfKindStartsBeforeT ==
  tq.pc = "sent" =>
    /\ tq.StartTimestamp <= tq.t.unix
    /\ WindowOfKind
    /\ tq.t.unix >= tq.EndTimestamp =>
         /\ tq.interval = "hourly"
         /\ \A c \in SentDates : [c.end EXCEPT !.sec = 0] = [c.t EXCEPT !.sec = 0]

\* an hourly window sent for a time in the last hour of a 25-hour local day:
\* the window ends before the reference time
C19_Witness ==
  /\ tq.pc = "sent"
  /\ tq.interval = "hourly"
  /\ tq.t.loc = "Europe/Berlin"
  /\ tq.t.unix >= tq.EndTimestamp

\* C20: for every month m of the reference time the daily window starts in
\* month 3*floor((m-1)/3)+1, one of 1, 4, 7, 10, not after m and at most 2
\* months before it (months 1, 4, 8, 12 give 1, 4, 7, 10); it starts in the
\* year of T and ends exactly 3 calendar months after its start, on Jan 1 of
\* the following year for the fourth quarter.
C20_QuarterStart ==
  (tq.pc = "sent" /\ tq.interval = "daily") =>
    \A c \in SentDates :
      \A m \in {c.t.month}, q \in {c.start.month} :
        /\ q = 3 * ((m - 1) \div 3) + 1
        /\ q \in {1, 4, 7, 10}
        /\ q <= m /\ m - q <= 2
        /\ m = 1 => q = 1
        /\ m = 4 => q = 4
        /\ m = 8 => q = 7
        /\ m = 12 => q = 10
        /\ c.start.year = c.t.year
        /\ c.start.day = 1 /\ c.start.sec = 0
        /\ c.end = [c.start EXCEPT !.month = ((q + 2) % 12) + 1,
                                   !.year = IF q + 3 > 12 THEN @ + 1 ELSE @]
        /\ q = 10 => c.end = FirstOf(c.t.year + 1, 1)

\* a daily window sent for a reference time in December: it starts on Oct 1
\* and ends on Jan 1 of the following year
C20_Witness ==
  /\ tq.pc = "sent"
  /\ tq.interval = "daily"
  /\ \E c \in SentDates :
       /\ c.t.month = 12
       /\ c.start.month = 10
       /\ c.end = FirstOf(c.t.year + 1, 1)

\* ----------------------------------------------------------------- daemon
\* a poll cycle starts at startup or by taking a tick out of ticker.C
PolledAtStartAndPerTick ==
  [][dm'.polls # dm.polls =>
       /\ dm'.polls = dm.polls + 1
       /\ dm'.pc = "poll"
       /\ \/ dm.pc = "idle"
          \/ dm.pc = "select" /\ dm.tick /\ ~dm'.tick]_vars

\* the daemon returns from select only, never out of a poll cycle
PollNotInterrupted ==
  [][dm.pc = "poll" => dm'.pc # "returned"]_vars

\* the daemon has printed the statistics of the store and returned
Returned_WithStats == dm.pc = "returned" /\ dm.stats = GetStats(db)

\* C21: the devices are polled once at startup and then once per tick; after
\* a signal is delivered the daemon eventually prints the statistics and
\* returns, and it never leaves a poll cycle that is in progress.
C21_GracefulShutdown ==
  /\ PolledAtStartAndPerTick
  /\ PollNotInterrupted
  /\ dm.sig ~> Returned_WithStats

\* C22: every row written to the hourly table has hour in 0..23 and every row
\* written to the monthly table has month in 1..12, whatever data array the
\* device returns.
C22_HourAndMonthInRange ==
  /\ \A k \in 1..Len(db.hourly) : db.hourly[k].hour \in 0..23
  /\ \A k \in 1..Len(db.monthly) : db.monthly[k].month \in 1..12

\* C23: for a READY session and a plaintext p, decrypting the payload that
\* encrypt produced for p at seq s with the same seq s returns exactly p, and
\* decrypting it with any other seq fails the signature check.
C23_RoundTrip ==
  fx.fn = "encrypt, decrypt" =>
    IF fx.in.seq = fx.out.seq
      THEN fx.out.d.kind = "ok" /\ fx.out.d.pt = fx.in.plaintext
      ELSE /\ fx.out.d.kind = "err"
           /\ fx.out.d.err = "signature verification failed"

\* a payload encrypted at the seq that wrapped to MinInt32 is decrypted with
\* seq 0 and refused
C23_Witness ==
  /\ fx.fn = "encrypt, decrypt"
  /\ fx.in.s.seq = MaxInt32
  /\ fx.out.seq = MinInt32
  /\ fx.in.seq = 0
  /\ Len(fx.in.plaintext) = 16
  /\ fx.out.d.err = "signature verification failed"


\* the triple key derivation reads
SeedTriple(s) == <<s.localSeed, s.remoteSeed, s.authHash>>

\* what key derivation writes
DerivedKeys(s) == <<s.key, s.ivSeq, s.sig, s.seq>>

\* C24: key derivation is a pure function of (local_seed, remote_seed,
\* auth_hash): two sessions with the same triple derive the same key, iv_seed,
\* sig_key and seq0 whatever their host and earlier seq; key has 16 bytes,
\* iv_seed 12, sig_key 28, and seq0 is the signed big-endian reading of bytes
\* 28..32 of the hash that gives iv_seed.
C24_DeriveKeysPure ==
  fx.fn = "deriveKeys" =>
    /\ SeedTriple(fx.in[1]) = SeedTriple(fx.in[2])
         => DerivedKeys(fx.out[1]) = DerivedKeys(fx.out[2])
    /\ \A i \in 1..2 :
         /\ fx.out[i].key.n = 16
         /\ fx.out[i].ivSeq.n = 12
         /\ fx.out[i].sig.n = 28
         /\ fx.out[i].ivSeq.of = IvData(fx.in[i].localSeed, fx.in[i].remoteSeed,
                                        fx.in[i].authHash)
         /\ fx.out[i].seq = Int32BE(DigestTail(fx.out[i].ivSeq.of))
         /\ fx.out[i].seq \in MinInt32..MaxInt32

\* two sessions with the same triple, on different hosts and with different
\* earlier seq values, derive the same keys and the same negative seq0
C24_Witness ==
  /\ fx.fn = "deriveKeys"
  /\ SeedTriple(fx.in[1]) = SeedTriple(fx.in[2])
  /\ fx.in[1].host # fx.in[2].host
  /\ fx.in[1].seq # fx.in[2].seq
  /\ DerivedKeys(fx.out[1]) = DerivedKeys(fx.out[2])
  /\ fx.out[1].seq = -2

\* C25: pkcs7Pad(x, 16) appends p copies of the byte p with p in 1..16 (16
\* when len(x) is a multiple of 16), the padded length is a multiple of 16,
\* and pkcs7Unpad of the padded string returns exactly x.
C25_PadUnpadRoundTrip ==
  fx.fn = "pkcs7Pad, pkcs7Unpad" =>
    \E p \in 1..16 :
      /\ fx.out.padded = fx.in \o Repeat(p, p)
      /\ (Len(fx.in) % 16 = 0) => (p = 16)
      /\ Len(fx.out.padded) % 16 = 0
      /\ fx.out.unpadded.ok
      /\ fx.out.unpadded.data = fx.in

\* a string of two whole blocks that itself ends in sixteen bytes 16 gets a
\* third block and comes back unchanged
C25_Witness ==
  /\ fx.fn = "pkcs7Pad, pkcs7Unpad"
  /\ Len(fx.in) = 32
  /\ SubSeq(fx.in, 17, 32) = Repeat(16, 16)
  /\ Len(fx.out.padded) = 48
  /\ fx.out.unpadded.data = fx.in

\* the final p bytes of x all equal its final byte p
Replicated(x) ==
  LET p == x[Len(x)]
  IN p <= Len(x) /\ \A i \in 0..(p - 1) : x[Len(x) - i] = p

\* C26: pkcs7Unpad rejects every input whose length is a positive multiple of
\* 16 and whose final byte p is 0, is greater than 16, or is not repeated
\* across the final p bytes; it also rejects the empty input and any input
\* whose final byte exceeds its length.
C26_UnpadRejects ==
  fx.fn = "pkcs7Unpad" =>
    /\ Len(fx.in) = 0 => ~fx.out.ok
    /\ (Len(fx.in) > 0 /\ fx.in[Len(fx.in)] > Len(fx.in)) => ~fx.out.ok
    /\ (Len(fx.in) > 0 /\ Len(fx.in) % 16 = 0
          /\ (\/ fx.in[Len(fx.in)] = 0
              \/ fx.in[Len(fx.in)] > 16
              \/ ~Replicated(fx.in)))
         => ~fx.out.ok

\* the tables with a UNIQUE key and the columns of the key
KeyedTables == {"hourly", "daily", "monthly"}

KeyCols(table) ==
  CASE table = "hourly" -> hourlyKey
    [] table = "daily" -> dailyKey
    [] table = "monthly" -> monthlyKey

\* the rows of a table whose key is k, and those whose key is not k
RowsOfKey(rows, cols, k) ==
  {i \in 1..Len(rows) : KeyOf(rows[i], cols) = k}

RowsOffKey(rows, cols, k) ==
  {rows[i] : i \in {j \in 1..Len(rows) : KeyOf(rows[j], cols) # k}}

\* each table holds at most one row per key
OneRowPerKey ==
  \A table \in KeyedTables :
    \A i, j \in 1..Len(db[table]) :
      KeyOf(db[table][i], KeyCols(table)) = KeyOf(db[table][j], KeyCols(table))
        => i = j

\* after an insert that succeeded, the one row of its key carries its values
InsertCarried ==
  (db.op.table \in KeyedTables /\ db.op.err = "") =>
    \E i \in 1..Len(db[db.op.table]) :
      /\ db[db.op.table][i] = db.op.row
      /\ RowsOfKey(db[db.op.table], KeyCols(db.op.table),
                   KeyOf(db.op.row, KeyCols(db.op.table))) = {i}

\* an insert leaves the rows of all other keys, the other tables and the
\* readings as they were, and a failed insert leaves its own key as well
OthersUnchanged ==
  db'.op.table \in KeyedTables =>
    /\ \A table \in KeyedTables \ {db'.op.table} : db'[table] = db[table]
    /\ db'.readings = db.readings
    /\ RowsOffKey(db'[db'.op.table], KeyCols(db'.op.table),
                  KeyOf(db'.op.row, KeyCols(db'.op.table)))
         = RowsOffKey(db[db'.op.table], KeyCols(db'.op.table),
                      KeyOf(db'.op.row, KeyCols(db'.op.table)))
    /\ db'.op.err # "" => db'[db'.op.table] = db[db'.op.table]

\* C27: after any sequence of InsertHourly, InsertDaily and InsertMonthly
\* calls each table holds at most one row per key, the row of a key carries
\* the values of the most recent insert for it, and an insert for one key
\* leaves the rows of all other keys and of the other tables unchanged.
C27_OneRowPerKey ==
  /\ [](OneRowPerKey /\ InsertCarried)
  /\ [][OthersUnchanged]_vars

\* every table holds rows, hourly holds two keys, and the last call was an
\* InsertHourly for the key inserted first, made when both rows were there
C27_Witness ==
  /\ db.op.table = "hourly"
  /\ db.op.err = ""
  /\ Len(db.hourly) = 2
  /\ db.hourly[1] = db.op.row
  /\ db.hourly[1].energy_wh # db.hourly[2].energy_wh
  /\ Len(db.daily) = 2
  /\ Len(db.monthly) = 2

\* the intervals GetEnergyData knows
KnownIntervals == {"hourly", "daily", "monthly"}

\* a step in which GetEnergyData was called with an unknown interval
InvalidEnergyCall ==
  ncalls' # ncalls /\ tq'.interval \notin KnownIntervals

\* such a call returns the error and leaves the session, the lock, those
\* waiting for it and the requests sent as they were
InvalidCallSendsNothing ==
  InvalidEnergyCall =>
    /\ tq'.pc = "error"
    /\ tq'.err = "invalid interval"
    /\ UNCHANGED <<session, mu, waiting, wire, assigned, jar, call>>

\* the seq values handed out on a session are seq0+1, seq0+2, ... in int32
\* arithmetic, and the session's seq is the last of them
SeqsConsecutive ==
  \A s \in Sessions :
    conn[s].st = "connected" =>
      /\ \A k \in 1..Len(assigned[s]) :
           assigned[s][k] = Inc32(IF k = 1 THEN Seq0(s) ELSE assigned[s][k - 1])
      /\ session[s].seq = IF assigned[s] = <<>> THEN Seq0(s)
                          ELSE assigned[s][Len(assigned[s])]

\* C28: GetEnergyData called with an interval that is not hourly, daily or
\* monthly returns an error without sending a request: the session's seq is
\* unchanged, the lock is not taken, and the next valid command uses the seq
\* it would have used had the invalid call not been made.
C28_InvalidIntervalNoEffect ==
  /\ [][InvalidCallSendsNothing]_vars
  /\ []SeqsConsecutive

\* after a call with the unknown interval "weekly" returned its error, a call
\* with a known interval was encrypted with seq0+1 as the first request of
\* the session
C28_Witness ==
  /\ ncalls = 2
  /\ tq.pc = "sent"
  /\ Len(assigned[1]) = 1
  /\ assigned[1][1] = Inc32(Seq0(1))
  /\ \E c \in Callers : call[c].pc = "post" /\ call[c].cmd = "GetEnergyData"
  /\ \A c \in Callers : call[c].pc \in {"idle", "post"}
  /\ Cardinality({c \in Callers : call[c].pc = "post"}) = 1

\* C29: decrypt ends with a plaintext or an error value for every payload and
\* never crashes, a payload of exactly 32 bytes with a valid signature over
\* an empty ciphertext and a validly signed payload whose ciphertext is not a
\* whole number of AES blocks included.
C29_DecryptNeverCrashes ==
  fx.fn = "decrypt" => fx.out.kind \in {"ok", "err"}

\* the query pollDevices makes after query q on the same device
QueryAfter(q) ==
  CASE q = "info" -> "power"
    [] q = "power" -> "hourly"
    [] q = "hourly" -> "usage"
    [] q = "usage" -> "monthly"

\* a failed Connect is followed by the Connect to the next device, or by the
\* end of the cycle after the last one
ConnectFailureMovesOn ==
  (dm.pc = "poll" /\ dm.q = "connect" /\ dm'.last.kind # "ok") =>
    IF dm.i < Len(dm.deviceIPs)
      THEN dm'.pc = "poll" /\ dm'.i = dm.i + 1 /\ dm'.q = "connect"
      ELSE dm'.pc = "select"

\* a query that did not succeed is followed by the next query on the device,
\* and after the last query by the next device
QueryFailureMovesOn ==
  (dm.pc = "poll" /\ dm.q \notin {"", "connect"} /\ dm'.last.kind # "ok") =>
    IF dm.q # "monthly"
      THEN dm'.pc = "poll" /\ dm'.i = dm.i /\ dm'.q = QueryAfter(dm.q)
    ELSE IF dm.i < Len(dm.deviceIPs)
      THEN dm'.pc = "poll" /\ dm'.i = dm.i + 1 /\ dm'.q = "connect"
    ELSE dm'.pc = "select"

\* the store changes only in a step whose query succeeded, and only in the
\* table of that query
RowsOnlyFromSucceeded ==
  /\ db'.readings # db.readings => dm.q = "power" /\ dm'.last.kind = "ok"
  /\ db'.hourly # db.hourly => dm.q = "hourly" /\ dm'.last.kind = "ok"
  /\ db'.daily # db.daily => dm.q = "usage" /\ dm'.last.kind = "ok"
  /\ db'.monthly # db.monthly => dm.q = "monthly" /\ dm'.last.kind = "ok"

\* no hourly or monthly row holds the value 0
NoZeroRows ==
  /\ \A i \in 1..Len(db.hourly) : db.hourly[i].energy_wh # 0
  /\ \A i \in 1..Len(db.monthly) : db.monthly[i].energy_wh # 0

\* C30: within one poll cycle a failed Connect does not prevent the remaining
\* devices from being polled, a failed query on a connected device does not
\* prevent the later queries on it, a store row is written only from a query
\* that succeeded, and hourly and monthly entries of value 0 are never
\* written.
C30_PollKeepsGoing ==
  /\ [][ConnectFailureMovesOn]_vars
  /\ [][QueryFailureMovesOn]_vars
  /\ [][RowsOnlyFromSucceeded]_vars
  /\ []NoZeroRows

====
